---- MODULE Spec2Model ----
(***************************************************************************)
(* Model of the wrapped-tessl dashboard: the Top-N selection of the        *)
(* landing page and the games chart (filter / sort / slice over the        *)
(* fetched games array), the theme lookup getGameTheme, and the synthetic  *)
(* spending estimator calculateSpendingStats.                              *)
(*                                                                         *)
(* JavaScript arrays are objects: filter, slice, map and the spread copy   *)
(* allocate a new array, sort works in place on the array it is called on. *)
(* Inside a handler the arrays live in a heap (a sequence of arrays, a     *)
(* reference is an index into it) so that in-place operations act on the   *)
(* object they are called on and on nothing else.                          *)
(***************************************************************************)
EXTENDS Integers, Sequences, FiniteSets, TLC

VARIABLES
    games,      \* contents of the array data.owned_games.games
    fetched,    \* the same array as it was parsed from the JSON response
    n,          \* the count passed to slice(0, n)
    topGames,   \* React state topGames of Home
    loading,    \* React state loading of Home
    view,       \* what the last render of Home returned
    pc,         \* the fetch of Home: "idle", "mounted", "fetching", "parsing",
                \* "pending" (response parsed), "rejected", "settled"
    gameName,   \* argument of a getGameTheme call
    theme,      \* value returned by that call
    tpc,        \* position of that call: "idle", "call", "returned"
    data,       \* the ProfileData object the Spendings page parsed
    dataFetched, \* the same object as it was parsed from the JSON response
    now,        \* the clock (Unix seconds) at the time of the estimate
    tz,         \* the browser's time zone, seconds east of UTC
    draws,      \* the values Math.random() returns during the estimate
    locals,     \* local values of the last calculateSpendingStats call
    again,      \* a second calculateSpendingStats call on the same object
    stats,      \* React state stats of Spendings (NoStats is null)
    sloading,   \* React state loading of Spendings
    sview,      \* what the last render of Spendings returned
    spc,        \* the fetch of Spendings, as pc
    minutes,    \* argument of a formatPlaytime call
    formatted,  \* what the three formatPlaytime functions returned for it
    fpc,        \* position of that call: "idle", "call", "returned"
    cdata,      \* contents of the array data.owned_games.games GamesChart parsed
    cgames,     \* React state games of GamesChart
    ctotalGames, \* React state totalGames of GamesChart
    ctotalPlaytime, \* React state totalPlaytime of GamesChart
    cloading,   \* React state loading of GamesChart
    cview,      \* what the last render of GamesChart returned
    cpc,        \* the fetch of GamesChart, as pc
    api,        \* React state api of Spendings: "undefined" or "set"
    current,    \* React state current of Spendings
    scount,     \* React state count of Spendings
    embla,      \* the carousel: its scroll snaps, the selected snap, and
                \* whether the page's "select" listener is registered
    wire,       \* per page, what its fetch delivers: "rejects", "invalid JSON",
                \* or the shape of owned_games.games in the parsed response
    fetches,    \* per page, the number of fetch calls made
    sets        \* per page, the number of times the computed data was set

vars == <<games, fetched, n, topGames, loading, view, pc, gameName, theme, tpc,
          data, dataFetched, now, tz, draws, locals, again, stats, sloading,
          sview, spc, minutes, formatted, fpc,
          cdata, cgames, ctotalGames, ctotalPlaytime, cloading, cview, cpc,
          api, current, scount, embla, wire, fetches, sets>>

selVars == <<games, fetched, n, topGames, loading, view, pc>>
themeVars == <<gameName, theme, tpc>>
fmtVars == <<minutes, formatted, fpc>>
chartVars == <<cdata, cgames, ctotalGames, ctotalPlaytime, cloading, cview, cpc>>
carVars == <<api, current, scount, embla>>
netVars == <<wire, fetches, sets>>
otherVars == <<fmtVars, chartVars, carVars, netVars>>
spendVars ==
    <<data, dataFetched, now, tz, draws, locals, again, stats, sloading, sview,
      spc>>

(***************************************************************************)
(* Bounds                                                                  *)
(***************************************************************************)
MaxGames == 6
MaxFrags == 3
MaxPriced == 2
MaxCount == 120
MaxSpread == 1
MaxMinutes == 3000
MaxChart == 12
MaxSnaps == 5

Min(a, b) == IF a < b THEN a ELSE b
Max(a, b) == IF a > b THEN a ELSE b

(***************************************************************************)
(* The fetched document.  A Game is a record {appid, name,                 *)
(* playtime_forever}; appids are unique, so the game at position i of the  *)
(* response carries appid i and the i-th name of the catalogue.  Names are *)
(* strings, modelled as sequences of one-character strings.                *)
(***************************************************************************)
Catalog ==
    << <<"W","a","r","f","r","a","m","e">>,
       <<"S","t","a","r","d","e","w"," ","V","a","l","l","e","y">>,
       <<"T","r","o","v","e">>,
       <<"T","h","e"," ","E","l","d","e","r"," ","S","c","r","o","l","l","s"," ","V",":"," ","S","k","y","r","i","m">>,
       <<"H","o","l","l","o","w"," ","K","n","i","g","h","t">>,
       <<"M","i","n","e","c","r","a","f","t">>,
       <<"T","e","r","r","a","r","i","a">>,
       <<"P","o","r","t","a","l"," ","2">> >>

NameOf(appid) == Catalog[((appid - 1) % Len(Catalog)) + 1]

Playtimes == {0, 60, 96973}

Game(appid, playtime) ==
    [appid |-> appid, name |-> NameOf(appid), playtime_forever |-> playtime]

\* Every games array with at most max games.
GameListsUpTo(max) ==
    UNION { { [i \in 1..len |-> Game(i, pt[i])] : pt \in [1..len -> Playtimes] }
            : len \in 0..max }

GameLists == GameListsUpTo(MaxGames)

\* slice(0, 4) on the landing page, slice(0, 10) on the games chart.
TopLanding == 4
TopChart == 10

\* The counts tried for slice(0, n).
Counts == ((0 - MaxGames - 1)..(MaxGames + 1)) \cup {TopLanding, TopChart}

(***************************************************************************)
(* Array.prototype methods over a heap h (a sequence of arrays) and a      *)
(* reference r (an index of h).  Each returns the new heap and the         *)
(* reference of the array the JavaScript call evaluates to.                *)
(***************************************************************************)
\* Mutant: the filter keeps the games that were never played.
PlayedOrOwned(game) == game.playtime_forever >= 0

Played(game) == game.playtime_forever > 0

\* Mutant: no copy is made, the array itself is filtered.
filterInPlace(h, r) ==
    [heap |-> [h EXCEPT ![r] = SelectSeq(h[r], Played)], ref |-> r]

\* a.filter(game => game.playtime_forever > 0): a new array.
filter(h, r) ==
    [heap |-> Append(h, SelectSeq(h[r], Played)), ref |-> Len(h) + 1]

\* Mutant: the comparator of an ascending sort.
byPlaytimeAscending(a, b) == a.playtime_forever - b.playtime_forever

\* The comparator (a, b) => b.playtime_forever - a.playtime_forever.
byPlaytime(a, b) == b.playtime_forever - a.playtime_forever

\* Mutant: the comparator that sorts the cheapest game first.
byPriceAscending(a, b) == a.estimatedPrice - b.estimatedPrice

\* The comparator (a, b) => b.estimatedPrice - a.estimatedPrice.
byPrice(a, b) == b.estimatedPrice - a.estimatedPrice

\* The comparator function named cmp, applied.
Compare(cmp, a, b) ==
    IF cmp = "byPlaytime" THEN byPlaytime(a, b) ELSE byPrice(a, b)

\* Mutant: x goes in front of the elements it compares equal to.
RECURSIVE InsertPosUnstable(_, _, _, _)
InsertPosUnstable(s, x, i, cmp) ==
    IF i > Len(s) THEN i
    ELSE IF Compare(cmp, s[i], x) >= 0 THEN i
    ELSE InsertPosUnstable(s, x, i + 1, cmp)

\* Position at which a stable sort places x among the already sorted s:
\* behind every element that does not compare greater than x.
RECURSIVE InsertPos(_, _, _, _)
InsertPos(s, x, i, cmp) ==
    IF i > Len(s) THEN i
    ELSE IF Compare(cmp, s[i], x) > 0 THEN i
    ELSE InsertPos(s, x, i + 1, cmp)

Insert(s, x, cmp) ==
    LET p == InsertPos(s, x, 1, cmp)
    IN  SubSeq(s, 1, p - 1) \o <<x>> \o SubSeq(s, p, Len(s))

\* Array.prototype.sort is stable (ECMAScript 2019 and later): the sorted
\* contents, as a value.
RECURSIVE StableSort(_, _)
StableSort(s, cmp) ==
    IF s = <<>> THEN <<>>
    ELSE Insert(StableSort(SubSeq(s, 1, Len(s) - 1), cmp), s[Len(s)], cmp)

\* a.sort(cmp): sorts the array a itself and evaluates to a.
sort(h, r, cmp) ==
    [heap |-> [h EXCEPT ![r] = StableSort(h[r], cmp)], ref |-> r]

\* Mutant: the end index is taken as inclusive.
SliceIndexInclusive(k, len) == IF k < 0 THEN Max(len + k, 0) ELSE Min(k + 1, len)

\* Mutant: a negative index is clamped to 0 instead of counting from the end.
SliceIndexClamped(k, len) == IF k < 0 THEN 0 ELSE Min(k, len)

\* a.slice(start, end): a new array; negative indices count from the end.
SliceIndex(k, len) == IF k < 0 THEN Max(len + k, 0) ELSE Min(k, len)

slice(h, r, start, end) ==
    LET len  == Len(h[r])
        from == SliceIndex(start, len)
        to   == SliceIndex(end, len)
    IN  [heap |-> Append(h, SubSeq(h[r], from + 1, to)), ref |-> Len(h) + 1]

(***************************************************************************)
(* getGameTheme                                                            *)
(***************************************************************************)
UpperCase == <<"A","B","C","D","E","F","G","H","I","J","K","L","M",
               "N","O","P","Q","R","S","T","U","V","W","X","Y","Z">>
LowerCase == <<"a","b","c","d","e","f","g","h","i","j","k","l","m",
               "n","o","p","q","r","s","t","u","v","w","x","y","z">>

LowerChar(c) ==
    IF \E k \in 1..Len(UpperCase) : UpperCase[k] = c
    THEN LowerCase[CHOOSE k \in 1..Len(UpperCase) : UpperCase[k] = c]
    ELSE c

\* Mutant: the name is compared as written.
toLowerCaseOmitted(str) == str

\* String.prototype.toLowerCase
toLowerCase(str) == [i \in 1..Len(str) |-> LowerChar(str[i])]

\* Mutant: the test indexOf(search) > 0, which misses a match at the start.
includesAfterStart(str, search) ==
    \E i \in 1..(Len(str) - Len(search)) :
        SubSeq(str, i + 1, i + Len(search)) = search

\* String.prototype.includes
includes(str, search) ==
    \E i \in 0..(Len(str) - Len(search)) :
        SubSeq(str, i + 1, i + Len(search)) = search

PatWarframe     == <<"w","a","r","f","r","a","m","e">>
PatTrove        == <<"t","r","o","v","e">>
PatSkyrim       == <<"s","k","y","r","i","m">>
PatElderScrolls == <<"e","l","d","e","r"," ","s","c","r","o","l","l","s">>
PatHollowKnight == <<"h","o","l","l","o","w"," ","k","n","i","g","h","t">>

WarframeTheme ==
    [background |-> "linear-gradient(135deg, #1e1e2e 0%, #2d1b3d 25%, #4a0e4e 50%, #1e1e2e 75%, #0f0f1e 100%)",
     primaryColor |-> "#00d4ff",
     secondaryColor |-> "#ffd700",
     accentGradient |-> "linear-gradient(135deg, #ffd700 0%, #ffed4e 50%, #00d4ff 100%)",
     tagline |-> "Your journey through the Origin System continues",
     decorative |-> "hexagon"]

TroveTheme ==
    [background |-> "linear-gradient(135deg, #2d1b69 0%, #4a90e2 25%, #7b68ee 50%, #9370db 75%, #2d1b69 100%)",
     primaryColor |-> "#ffd700",
     secondaryColor |-> "#ff69b4",
     accentGradient |-> "linear-gradient(135deg, #ffd700 0%, #ff69b4 50%, #7b68ee 100%)",
     tagline |-> "Adventure awaits in the voxel realms",
     decorative |-> "cube"]

SkyrimTheme ==
    [background |-> "linear-gradient(135deg, #2c1810 0%, #3d2817 25%, #4a2c1a 50%, #5a3a24 75%, #2c1810 100%)",
     primaryColor |-> "#d4af37",
     secondaryColor |-> "#8b7355",
     accentGradient |-> "linear-gradient(135deg, #d4af37 0%, #f4d03f 50%, #8b7355 100%)",
     tagline |-> "The Dragonborn's legacy continues",
     decorative |-> "dragon"]

HollowKnightTheme ==
    [background |-> "linear-gradient(135deg, #0a0a0a 0%, #1a1a2e 25%, #16213e 50%, #0f3460 75%, #0a0a0a 100%)",
     primaryColor |-> "#e94560",
     secondaryColor |-> "#00d4ff",
     accentGradient |-> "linear-gradient(135deg, #e94560 0%, #ff6b9d 50%, #00d4ff 100%)",
     tagline |-> "Descend into the depths of Hallownest",
     decorative |-> "mask"]

DefaultTheme ==
    [background |-> "linear-gradient(135deg, #1e1e2e 0%, #2d1b3d 50%, #1e1e2e 100%)",
     primaryColor |-> "#00d4ff",
     secondaryColor |-> "#ffd700",
     accentGradient |-> "linear-gradient(135deg, #ffd700 0%, #00d4ff 100%)",
     tagline |-> "Your gaming journey continues",
     decorative |-> "circle"]

\* Mutant: the Skyrim test comes first.
getGameThemeSkyrimFirst(name_) ==
    LET name == toLowerCase(name_)
    IN  IF includes(name, PatSkyrim) \/ includes(name, PatElderScrolls)
             THEN SkyrimTheme
        ELSE IF includes(name, PatWarframe) THEN WarframeTheme
        ELSE IF includes(name, PatTrove) THEN TroveTheme
        ELSE IF includes(name, PatHollowKnight) THEN HollowKnightTheme
        ELSE DefaultTheme

\* Mutant: the last theme of the table is returned when nothing matches.
getGameThemeNoDefault(name_) ==
    LET name == toLowerCase(name_)
    IN  IF includes(name, PatWarframe) THEN WarframeTheme
        ELSE IF includes(name, PatTrove) THEN TroveTheme
        ELSE IF includes(name, PatSkyrim) \/ includes(name, PatElderScrolls)
             THEN SkyrimTheme
        ELSE HollowKnightTheme

getGameTheme(name_) ==
    LET name == toLowerCase(name_)
    IN  IF includes(name, PatWarframe) THEN WarframeTheme
        ELSE IF includes(name, PatTrove) THEN TroveTheme
        ELSE IF includes(name, PatSkyrim) \/ includes(name, PatElderScrolls)
             THEN SkyrimTheme
        ELSE IF includes(name, PatHollowKnight) THEN HollowKnightTheme
        ELSE DefaultTheme

(***************************************************************************)
(* calculateSpendingStats                                                  *)
(*                                                                         *)
(* Math.random() returns a value of [0, 1); the model draws thousandths,   *)
(* so the value k stands for k / 1000.  rnd is the sequence of values the  *)
(* calls return, pos the index of the next one.                            *)
(***************************************************************************)
\* Mutant: Math.round in place of Math.floor.
RandomIntRounded(k, span, base) == ((k * span + 500) \div 1000) + base

\* Math.floor(r * span + base) for r = k / 1000.
RandomInt(k, span, base) == ((k * span) \div 1000) + base

\* { ...game, estimatedPrice: price }: a new object.
WithPrice(game, price) ==
    [appid |-> game.appid, name |-> game.name,
     playtime_forever |-> game.playtime_forever, estimatedPrice |-> price]

\* Mutant: the tier boundaries 0.3 and 0.8 belong to the tier below.
estimatePriceInclusive(game, rnd, pos) ==
    IF game.playtime_forever = 0 /\ rnd[pos] < 150
    THEN [value |-> WithPrice(game, 0), pos |-> pos + 1]
    ELSE LET p     == IF game.playtime_forever = 0 THEN pos + 1 ELSE pos
             rand  == rnd[p]
             price == IF rand <= 300 THEN RandomInt(rnd[p + 1], 30, 40)
                      ELSE IF rand <= 800 THEN RandomInt(rnd[p + 1], 25, 5)
                      ELSE RandomInt(rnd[p + 1], 9, 1)
         IN  [value |-> WithPrice(game, price), pos |-> p + 2]

\* The callback of games.map: the priced game and the next draw's index.
\* Math.random() < 0.15 is only evaluated for a game with no playtime.
estimatePrice(game, rnd, pos) ==
    IF game.playtime_forever = 0 /\ rnd[pos] < 150
    THEN [value |-> WithPrice(game, 0), pos |-> pos + 1]
    ELSE LET p     == IF game.playtime_forever = 0 THEN pos + 1 ELSE pos
             rand  == rnd[p]
             price == IF rand < 300 THEN RandomInt(rnd[p + 1], 30, 40)
                      ELSE IF rand < 800 THEN RandomInt(rnd[p + 1], 25, 5)
                      ELSE RandomInt(rnd[p + 1], 9, 1)
         IN  [value |-> WithPrice(game, price), pos |-> p + 2]

\* The callback applied to arr[i], arr[i + 1], ...: the priced games, the
\* values each call of the callback drew, and the next draw's index.
RECURSIVE mapPrices(_, _, _, _)
mapPrices(arr, i, rnd, pos) ==
    IF i > Len(arr) THEN [values |-> <<>>, drawn |-> <<>>, pos |-> pos]
    ELSE LET one  == estimatePrice(arr[i], rnd, pos)
             rest == mapPrices(arr, i + 1, rnd, one.pos)
         IN  [values |-> <<one.value>> \o rest.values,
              drawn |-> <<SubSeq(rnd, pos, one.pos - 1)>> \o rest.drawn,
              pos |-> rest.pos]

\* Mutant: the callback sets estimatedPrice on the game object it is given.
mapAssigning(h, r, rnd) ==
    LET m == mapPrices(h[r], 1, rnd, 1)
    IN  [heap |-> Append([h EXCEPT ![r] = m.values], m.values),
         ref |-> Len(h) + 1, drawn |-> m.drawn, pos |-> m.pos]

\* games.map(game => ...): a new array of new objects.
map(h, r, rnd) ==
    LET m == mapPrices(h[r], 1, rnd, 1)
    IN  [heap |-> Append(h, m.values), ref |-> Len(h) + 1,
         drawn |-> m.drawn, pos |-> m.pos]

\* gamesWithPrices.reduce((sum, game) => sum + game.estimatedPrice, 0)
RECURSIVE sumPrices(_, _)
sumPrices(arr, i) ==
    IF i > Len(arr) THEN 0 ELSE arr[i].estimatedPrice + sumPrices(arr, i + 1)

\* Mutant: >= in place of >, so a later game of the same price replaces
\* the accumulator.
RECURSIVE maxPriceLast(_, _, _)
maxPriceLast(arr, i, max) ==
    IF i > Len(arr) THEN max
    ELSE maxPriceLast(arr, i + 1,
                      IF arr[i].estimatedPrice >= max.estimatedPrice THEN arr[i] ELSE max)

\* gamesWithPrices.reduce((max, game) =>
\*     game.estimatedPrice > max.estimatedPrice ? game : max)
\* from the accumulator max at element i.  Without an initial value the
\* accumulator starts as the first element, and reduce throws a TypeError
\* on an empty array.
RECURSIVE maxPrice(_, _, _)
maxPrice(arr, i, max) ==
    IF i > Len(arr) THEN max
    ELSE maxPrice(arr, i + 1,
                  IF arr[i].estimatedPrice > max.estimatedPrice THEN arr[i] ELSE max)

\* [...a]: a new array with the same elements.
spread(h, r) == [heap |-> Append(h, h[r]), ref |-> Len(h) + 1]

\* The callback of the last map: { name, price, playtime }.
Expensive(game) ==
    [name |-> game.name, price |-> game.estimatedPrice,
     playtime |-> game.playtime_forever]

\* new Date(seconds * 1000).getFullYear(), in a time zone that is zone
\* seconds east of UTC.
IsLeap(y) == (y % 4 = 0 /\ y % 100 # 0) \/ y % 400 = 0
DaysIn(y) == IF IsLeap(y) THEN 366 ELSE 365

RECURSIVE YearFrom(_, _)
YearFrom(y, days) ==
    IF days < DaysIn(y) THEN y ELSE YearFrom(y + 1, days - DaysIn(y))

EpochYear == 1970
SecondsPerDay == 86400

\* Mutant: the number of the day in place of the year.
getDayNumber(seconds, zone) == (seconds + zone) \div SecondsPerDay

getFullYear(seconds, zone) ==
    YearFrom(EpochYear, (seconds + zone) \div SecondsPerDay)

\* Mutant: Math.ceil in place of Math.floor.
CeilOf(x, hundredths) == (x * hundredths + 99) \div 100

\* Mutant: Math.round in place of Math.floor.
RoundOf(x, hundredths) == (x * hundredths + 50) \div 100

\* Math.floor(x * w) for the double w, given as hundredths: the doubles
\* 0.15, 0.2, 0.3, 0.5 and 0.55 give the exact floor for every x of
\* 0..3000000, the double 0.25 for every x of 0..2000.
FloorOf(x, hundredths) == (x * hundredths) \div 100

\* The totals x of 0..552 for which x * (0.3 - i * 0.05) in double
\* arithmetic falls below the integer x * (30 - 5 * i) / 100, because
\* 0.3 - 2 * 0.05 = 0.19999999999999998, 0.3 - 3 * 0.05 =
\* 0.14999999999999997 and 0.3 - 4 * 0.05 = 0.09999999999999998.
FallsShort(x, i) ==
    \/ i = 2 /\ x % 5 = 0 /\ \/ x \in 5..20
                              \/ x \in 30..40
                              \/ x \in 55..80
                              \/ x \in 110..160
                              \/ x \in 215..320
                              \/ x \in 430..552
    \/ i = 3 /\ x > 0 /\ x % 20 = 0
    \/ i = 4 /\ x > 0 /\ x % 10 = 0

\* Mutant: the weight grows by 0.05 a year instead of shrinking.
yearAmountGrowing(totalSpent, i) == Max(0, FloorOf(totalSpent, 30 + 5 * i))

\* Math.max(0, Math.floor(totalSpent * (0.3 - i * 0.05)))
yearAmount(totalSpent, i) ==
    Max(0, FloorOf(totalSpent, 30 - 5 * i) - (IF FallsShort(totalSpent, i) THEN 1 ELSE 0))

\* totalSpent / estimatedPaidGames in double arithmetic: a quotient, or
\* Infinity or NaN when the divisor is 0.
divide(a, b) ==
    IF b # 0 THEN [kind |-> "quotient", num |-> a, den |-> b]
    ELSE IF a = 0 THEN [kind |-> "NaN"]
    ELSE IF a > 0 THEN [kind |-> "Infinity"]
    ELSE [kind |-> "-Infinity"]

TopExpensive == 5
MaxYears == 5

\* Mutant: the totals use the shares of the counts.
categoryBreakdownSameShares(totalGames, totalSpent) ==
    << [category |-> "AAA Titles",
        count |-> FloorOf(totalGames, 30),
        total |-> FloorOf(totalSpent, 30)],
       [category |-> "Indie Games",
        count |-> FloorOf(totalGames, 50),
        total |-> FloorOf(totalSpent, 50)],
       [category |-> "Budget Games",
        count |-> FloorOf(totalGames, 20),
        total |-> FloorOf(totalSpent, 20)] >>

\* The literal categoryBreakdown: three entries computed from the two
\* totals.
categoryBreakdown(totalGames, totalSpent) ==
    << [category |-> "AAA Titles",
        count |-> FloorOf(totalGames, 30),
        total |-> FloorOf(totalSpent, 55)],
       [category |-> "Indie Games",
        count |-> FloorOf(totalGames, 50),
        total |-> FloorOf(totalSpent, 30)],
       [category |-> "Budget Games",
        count |-> FloorOf(totalGames, 20),
        total |-> FloorOf(totalSpent, 15)] >>

\* The result: whether the call threw, the SpendingStats it returned, the
\* contents of data.owned_games.games afterwards (the array at reference 1
\* of the call's heap), and the local values computed before the reduce
\* that may throw.
calculateSpendingStats(d, rnd, clock, zone) ==
    LET year               == getFullYear(clock, zone)
        totalGames         == d.owned_games.game_count
        estimatedFreeGames == FloorOf(totalGames, 15)
        estimatedPaidGames == totalGames - estimatedFreeGames
        h0                 == <<d.owned_games.games>>
        priced             == map(h0, 1, rnd)
        gamesWithPrices    == priced.heap[priced.ref]
        totalSpent         == sumPrices(gamesWithPrices, 1)
        averagePerGame     == divide(totalSpent, estimatedPaidGames)
        mostExpensiveGame  == maxPrice(gamesWithPrices, 2, gamesWithPrices[1])
        copied             == spread(priced.heap, priced.ref)
        sorted             == sort(copied.heap, copied.ref, "byPrice")
        sliced             == slice(sorted.heap, sorted.ref, 0, TopExpensive)
        top                == sliced.heap[sliced.ref]
        accountYears       == year - getFullYear(d.player_summary.timecreated, zone) + 1
        before             == [called |-> TRUE,
                               gamesWithPrices |-> gamesWithPrices,
                               drawn |-> priced.drawn,
                               totalSpent |-> totalSpent,
                               estimatedPaidGames |-> estimatedPaidGames,
                               averagePerGame |-> averagePerGame]
    IN  IF Len(gamesWithPrices) = 0
        THEN [threw |-> TRUE, games |-> priced.heap[1], locals |-> before]
        ELSE [threw |-> FALSE,
              games |-> sliced.heap[1],
              locals |-> before,
              stats |->
                [totalSpent |-> totalSpent,
                 averagePerGame |-> averagePerGame,
                 gamesOwned |-> totalGames,
                 estimatedFreeGames |-> estimatedFreeGames,
                 estimatedPaidGames |-> estimatedPaidGames,
                 mostExpensiveGame |->
                    [name |-> mostExpensiveGame.name,
                     price |-> mostExpensiveGame.estimatedPrice],
                 yearlyBreakdown |->
                    [k \in 1..Max(0, Min(accountYears, MaxYears)) |->
                        [year |-> year - (k - 1),
                         amount |-> yearAmount(totalSpent, k - 1)]],
                 topExpensiveGames |->
                    [k \in 1..Len(top) |-> Expensive(top[k])],
                 categoryBreakdown |->
                    categoryBreakdown(totalGames, totalSpent)]]

(***************************************************************************)
(* The landing page (Home)                                                 *)
(***************************************************************************)
\* One GameSection element: its props and the theme it looks up.
GameSection(game, rank) ==
    [game |-> game, rank |-> rank, theme |-> getGameTheme(game.name)]

\* What Home returns for the state (loading, topGames).
HomeView(isLoading, top) ==
    IF isLoading THEN [screen |-> "loading", sections |-> <<>>]
    ELSE [screen   |-> IF Len(top) = 0 THEN "empty" ELSE "games",
          sections |-> [i \in 1..Len(top) |-> GameSection(top[i], i)]]

\* The handler given to .then: data.owned_games.games is the array at
\* reference 1; filter, sort, slice(0, n), setTopGames, setLoading(false).
\* When owned_games.games is missing or not an array, the call of filter
\* throws, the promise is rejected and the handler given to .catch runs next.
SelectTop ==
    /\ pc = "pending"
    /\ IF wire.home = "array"
       THEN LET h0       == <<games>>
                filtered == filter(h0, 1)
                sorted   == sort(filtered.heap, filtered.ref, "byPlaytime")
                sliced   == slice(sorted.heap, sorted.ref, 0, n)
            IN  /\ games' = sliced.heap[1]
                /\ topGames' = sliced.heap[sliced.ref]
                /\ sets' = [sets EXCEPT !.home = @ + 1]
                /\ loading' = FALSE
                /\ pc' = "settled"
       ELSE /\ pc' = "rejected"
            /\ UNCHANGED <<games, topGames, sets, loading>>
    /\ UNCHANGED <<fetched, n, view, themeVars, spendVars,
                   fmtVars, chartVars, carVars, wire, fetches>>

\* Mutant: a handler that only logs the error.
HomeCatchLogsOnly ==
    /\ pc = "rejected"
    /\ pc' = "settled"
    /\ UNCHANGED <<games, fetched, n, topGames, loading, view, themeVars,
                   spendVars, otherVars>>

\* The handler given to .catch: console.error, setLoading(false).
HomeCatch ==
    /\ pc = "rejected"
    /\ loading' = FALSE
    /\ pc' = "settled"
    /\ UNCHANGED <<games, fetched, n, topGames, view, themeVars, spendVars,
                   otherVars>>

\* React renders Home again after a state change.
Render ==
    /\ view # HomeView(loading, topGames)
    /\ view' = HomeView(loading, topGames)
    /\ UNCHANGED <<games, fetched, n, topGames, loading, pc, themeVars, spendVars,
                   otherVars>>

(***************************************************************************)
(* Calls of getGameTheme on arbitrary names: every concatenation of at     *)
(* most MaxFrags of the fragments below, which spell each pattern in       *)
(* several letter cases, pieces that only form a pattern when joined, and  *)
(* text that matches nothing.                                              *)
(***************************************************************************)
Fragments ==
    { <<"W","a","r","f","r","a","m","e">>,
      <<"W","A","R","F","R","A","M","E">>,
      <<"w","a","r">>,
      <<"f","r","a","m","e">>,
      <<" ","X">>,
      <<":"," ">>,
      <<"1","9","9","9">>,
      <<"T","r","o","v","e">>,
      <<"T","h","e"," ","E","l","d","e","r"," ","S","c","r","o","l","l","s"," ","V">>,
      <<"S","k","y","r","i","m">>,
      <<"H","O","L","L","O","W"," ","k","n","i","g","h","t">>,
      <<"M","i","n","e","c","r","a","f","t">> }

RECURSIVE NamesOf(_)
NamesOf(k) ==
    IF k = 0 THEN { <<>> }
    ELSE LET shorter == NamesOf(k - 1)
         IN  shorter \cup { a \o f : a \in shorter, f \in Fragments }

Names == NamesOf(MaxFrags)

\* A caller evaluates getGameTheme(gameName).
CallGetGameTheme ==
    /\ tpc = "call"
    /\ theme' = getGameTheme(gameName)
    /\ tpc' = "returned"
    /\ UNCHANGED <<gameName, selVars, spendVars,
                   otherVars>>

(***************************************************************************)
(* The spendings page (Spendings)                                          *)
(***************************************************************************)
NoStats == [kind |-> "null"]

\* calculateSpendingStats has not been called.
NoLocals == [called |-> FALSE]

\* What Spendings returns for the state (loading, stats).
SpendingsView(isLoading, st) ==
    IF isLoading THEN [screen |-> "loading"]
    ELSE IF st = NoStats THEN [screen |-> "failed"]
    ELSE [screen |-> "stats"]

\* The values Math.random() may return to the calls made for one game:
\* the free-game test (only for a game with no playtime), the tier and the
\* price within the tier.
FreeDraws == {149, 150}
TierDraws == {299, 300, 799, 800}
PriceDraws == {0, 999}

DrawsFor(game) ==
    LET priced == { <<t, p>> : t \in TierDraws, p \in PriceDraws }
    IN  IF game.playtime_forever = 0
        THEN { <<f>> : f \in { x \in FreeDraws : x < 150 } }
             \cup { <<f>> \o tp : f \in { x \in FreeDraws : x >= 150 }, tp \in priced }
        ELSE priced

\* The sequences of values the estimate of the games gs consumes, where
\* choices[k] holds the sequences the callback may consume for gs[k].
RECURSIVE StreamsOf(_, _)
StreamsOf(gs, choices) ==
    IF gs = <<>> THEN { <<>> }
    ELSE { a \o b : a \in StreamsOf(SubSeq(gs, 1, Len(gs) - 1), choices),
                    b \in choices[Len(gs)] }

Streams(gs) == StreamsOf(gs, [k \in 1..Len(gs) |-> DrawsFor(gs[k])])

\* Two outcomes per game: free or budget (price 9) for a game with no
\* playtime, AAA (price 40) or budget (price 9) for a played game.
CoarseDrawsFor(game) ==
    IF game.playtime_forever = 0
    THEN { <<149>>, <<150, 800, 999>> }
    ELSE { <<299, 0>>, <<800, 999>> }

CoarseStreams(gs) == StreamsOf(gs, [k \in 1..Len(gs) |-> CoarseDrawsFor(gs[k])])

\* Fifteen price draws spread over [0, 1), for each of the three tiers.
SpreadDraws == { 67 * j : j \in 0..14 }

SpreadStreams(gs) ==
    StreamsOf(gs, [k \in 1..Len(gs) |->
                      { <<t, p>> : t \in {299, 300, 800}, p \in SpreadDraws }])

\* The handler given to .then: calculateSpendingStats(data), setStats,
\* setLoading(false).  Math.random() returns the values of draws, in
\* order.  When the call throws, the promise is rejected and the handler
\* given to .catch runs next.
\* When owned_games.games is missing or not an array, the call of map in
\* calculateSpendingStats throws.
SpendingsThen ==
    /\ spc = "pending"
    /\ IF wire.spendings = "array"
       THEN \E r \in {calculateSpendingStats(data, draws, now, tz)} :
                /\ data' = [data EXCEPT !.owned_games.games = r.games]
                /\ locals' = r.locals
                /\ IF r.threw
                   THEN /\ spc' = "rejected"
                        /\ UNCHANGED <<stats, sloading, sets>>
                   ELSE /\ stats' = r.stats
                        /\ sets' = [sets EXCEPT !.spendings = @ + 1]
                        /\ sloading' = FALSE
                        /\ spc' = "settled"
       ELSE /\ spc' = "rejected"
            /\ UNCHANGED <<data, locals, stats, sloading, sets>>
    /\ UNCHANGED <<dataFetched, now, tz, draws, again, sview, selVars, themeVars,
                   fmtVars, chartVars, carVars, wire, fetches>>

\* The handler given to .catch: console.error, setLoading(false).
SpendingsCatch ==
    /\ spc = "rejected"
    /\ sloading' = FALSE
    /\ spc' = "settled"
    /\ UNCHANGED <<data, dataFetched, now, tz, draws, locals, again, stats, sview,
                   selVars, themeVars,
                   otherVars>>

\* React renders Spendings again after a state change.
RenderSpendings ==
    /\ sview # SpendingsView(sloading, stats)
    /\ sview' = SpendingsView(sloading, stats)
    /\ UNCHANGED <<data, dataFetched, now, tz, draws, locals, again, stats,
                   sloading, spc, selVars, themeVars,
                   otherVars>>

(***************************************************************************)
(* formatPlaytime: the landing page, the games chart and the spendings     *)
(* page each have their own.  A returned string is modelled by its shape,  *)
(* its numbers and its unit texts.                                         *)
(***************************************************************************)
\* The minutes of 60..1439 for which (minutes / 60).toFixed(1) rounds a
\* final 5 down, because the double minutes / 60 lies below the decimal
\* value (69 / 60 is 1.149999999999999911 and prints as 1.1).
FixedRoundsDown ==
    { 69, 87, 99, 117, 123, 129, 153, 159, 183, 189, 213, 219,
      243, 261, 273, 291, 303, 321, 333, 351, 363, 381, 393, 411,
      423, 441, 453, 471, 501, 507, 531, 537, 561, 567, 591, 597,
      621, 627, 651, 657, 681, 687, 711, 717, 741, 747, 771, 777,
      801, 807, 831, 837, 861, 867, 891, 897, 921, 927, 951, 957,
      969, 987, 999, 1017, 1029, 1047, 1059, 1077, 1089, 1107, 1119, 1137,
      1149, 1167, 1179, 1197, 1209, 1227, 1239, 1257, 1269, 1287, 1299, 1317,
      1329, 1347, 1359, 1377, 1389, 1407, 1419, 1437 }

\* (minutes / 60).toFixed(1), in tenths of an hour.
toFixedTenths(mins) ==
    ((mins + 3) \div 6) - (IF mins \in FixedRoundsDown THEN 1 ELSE 0)

\* The three returns of the landing page's and the chart's function, with
\* the unit texts units.
formatWith(mins, units) ==
    IF mins < 60
    THEN [shape |-> "minutes", minutes |-> mins, unit |-> units[1]]
    ELSE IF mins < 1440
    THEN [shape |-> "hours", tenths |-> toFixedTenths(mins), unit |-> units[2]]
    ELSE [shape |-> "days", days |-> mins \div 1440, hours |-> (mins \div 60) % 24,
          unit |-> units[3], hoursUnit |-> units[2]]

\* Mutant: Math.round(hours % 24) for the remaining hours.
formatPlaytimeRounded(mins) ==
    IF mins < 1440 THEN formatWith(mins, <<" minutes", " hours", " days ">>)
    ELSE [shape |-> "days", days |-> mins \div 1440,
          hours |-> ((mins % 1440) + 30) \div 60,
          unit |-> " days ", hoursUnit |-> " hours"]

\* formatPlaytime of landing.tsx.
formatPlaytime(mins) == formatWith(mins, <<" minutes", " hours", " days ">>)

\* formatPlaytime of games-chart.tsx.
formatPlaytimeChart(mins) == formatWith(mins, <<"m", "h", "d ">>)

\* formatPlaytime of the spendings page.
formatPlaytimeSpendings(mins) ==
    LET hours == mins \div 60
    IN  IF hours = 0 THEN [shape |-> "text", text |-> "Not played"]
        ELSE IF hours < 24 THEN [shape |-> "hours", hours |-> hours, unit |-> "h"]
        ELSE [shape |-> "days", days |-> hours \div 24, hours |-> hours % 24,
              unit |-> "d ", hoursUnit |-> "h"]

\* One call of each function with the same argument.
CallFormatPlaytime ==
    /\ fpc = "call"
    /\ formatted' = [landing |-> formatPlaytime(minutes),
                     chart |-> formatPlaytimeChart(minutes),
                     spendings |-> formatPlaytimeSpendings(minutes)]
    /\ fpc' = "returned"
    /\ UNCHANGED <<minutes, selVars, themeVars, spendVars, chartVars, carVars,
                   netVars>>

(***************************************************************************)
(* The games chart (GamesChart)                                            *)
(***************************************************************************)
\* formatHours(minutes) = Math.round((minutes / 60) * 10) / 10, in tenths
\* of an hour; for integer minutes of 0..2000000 the doubles give the
\* exact rounding with halves going up.
formatHours(mins) == (mins + 3) \div 6

\* String(k) for k >= 0, as a sequence of characters.
Digit(k) == <<"0","1","2","3","4","5","6","7","8","9">>[k + 1]
RECURSIVE NumberToString(_)
NumberToString(k) == IF k < 10 THEN <<Digit(k)>> ELSE NumberToString(k \div 10) \o <<Digit(k % 10)>>

\* reduce((sum, game) => sum + game.playtime_forever, 0)
RECURSIVE sumPlaytime(_, _)
sumPlaytime(arr, i) ==
    IF i > Len(arr) THEN 0 ELSE arr[i].playtime_forever + sumPlaytime(arr, i + 1)

\* Mutant: rank is the index, not index + 1.
ChartEntryFromZero(game, rank) ==
    [name |-> game.name, fullName |-> game.name,
     value |-> formatHours(game.playtime_forever),
     minutes |-> game.playtime_forever, rank |-> rank - 1]

\* One entry of chartData for a game, and the entry for the other games.
ChartEntry(game, rank) ==
    [name |-> game.name, fullName |-> game.name,
     value |-> formatHours(game.playtime_forever),
     minutes |-> game.playtime_forever, rank |-> rank]

OthersEntry(otherGames, otherGamesTotal) ==
    [name |-> <<"O","t","h","e","r","s"," ","(">> \o NumberToString(Len(otherGames))
              \o <<" ","g","a","m","e","s",")">>,
     fullName |-> <<"O","t","h","e","r"," ">> \o NumberToString(Len(otherGames))
                  \o <<" ","g","a","m","e","s">>,
     value |-> formatHours(otherGamesTotal),
     minutes |-> otherGamesTotal, rank |-> 11]

\* The array chartData built on every render from the state games.
chartData(gs) ==
    LET top        == slice(<<gs>>, 1, 0, TopChart)
        topGames_  == top.heap[top.ref]
        rest       == slice(<<gs>>, 1, TopChart, Len(gs))
        otherGames == rest.heap[rest.ref]
        otherGamesTotal == sumPlaytime(otherGames, 1)
    IN  [i \in 1..Len(topGames_) |-> ChartEntry(topGames_[i], i)]
        \o (IF otherGamesTotal > 0
            THEN <<OthersEntry(otherGames, otherGamesTotal)>> ELSE <<>>)

\* One row of the Top 10 table.
TableRow(game, rank) ==
    [key |-> game.appid, rank |-> rank, name |-> game.name,
     hours |-> formatHours(game.playtime_forever),
     playtime |-> formatPlaytimeChart(game.playtime_forever)]

\* Mutant: the average is computed without the test totalGames > 0.
GamesChartViewUnguarded(isLoading, gs, count, total) ==
    IF isLoading THEN [screen |-> "loading"]
    ELSE LET top == slice(<<gs>>, 1, 0, TopChart)
             rows == top.heap[top.ref]
         IN  [screen |-> "chart",
              totalGames |-> count,
              totalPlaytime |-> total,
              totalHours |-> formatHours(total),
              average |-> divide(total, count),
              chartData |-> chartData(gs),
              table |-> [i \in 1..Len(rows) |-> TableRow(rows[i], i)]]

\* What GamesChart returns for its state.  The average is the quotient
\* totalPlaytime / totalGames handed to formatHours, or the literal 0.
GamesChartView(isLoading, gs, count, total) ==
    IF isLoading THEN [screen |-> "loading"]
    ELSE LET top == slice(<<gs>>, 1, 0, TopChart)
             rows == top.heap[top.ref]
         IN  [screen |-> "chart",
              totalGames |-> count,
              totalPlaytime |-> total,
              totalHours |-> formatHours(total),
              average |-> IF count > 0 THEN divide(total, count)
                          ELSE [kind |-> "quotient", num |-> 0, den |-> 1],
              chartData |-> chartData(gs),
              table |-> [i \in 1..Len(rows) |-> TableRow(rows[i], i)]]

\* The handler given to .then: filter, sort, setGames, setTotalGames,
\* setTotalPlaytime, setLoading(false).
\* When owned_games.games is missing or not an array, the call of filter
\* throws before any state is set.
ChartThen ==
    /\ cpc = "pending"
    /\ IF wire.chart = "array"
       THEN LET h0       == <<cdata>>
                filtered == filter(h0, 1)
                sorted   == sort(filtered.heap, filtered.ref, "byPlaytime")
                allGames == sorted.heap[sorted.ref]
            IN  /\ cdata' = sorted.heap[1]
                /\ cgames' = allGames
                /\ ctotalGames' = Len(allGames)
                /\ ctotalPlaytime' = sumPlaytime(allGames, 1)
                /\ sets' = [sets EXCEPT !.chart = @ + 1]
                /\ cloading' = FALSE
                /\ cpc' = "settled"
       ELSE /\ cpc' = "rejected"
            /\ UNCHANGED <<cdata, cgames, ctotalGames, ctotalPlaytime, sets,
                           cloading>>
    /\ UNCHANGED <<cview, selVars, themeVars, spendVars, fmtVars, carVars,
                   wire, fetches>>

\* The handler given to .catch: console.error, setLoading(false).
ChartCatch ==
    /\ cpc = "rejected"
    /\ cloading' = FALSE
    /\ cpc' = "settled"
    /\ UNCHANGED <<cdata, cgames, ctotalGames, ctotalPlaytime, cview,
                   selVars, themeVars, spendVars, fmtVars, carVars, netVars>>

\* React renders GamesChart again after a state change.
RenderChart ==
    /\ cview # GamesChartView(cloading, cgames, ctotalGames, ctotalPlaytime)
    /\ cview' = GamesChartView(cloading, cgames, ctotalGames, ctotalPlaytime)
    /\ UNCHANGED <<cdata, cgames, ctotalGames, ctotalPlaytime, cloading, cpc,
                   selVars, themeVars, spendVars, fmtVars, carVars, netVars>>

(***************************************************************************)
(* The carousel of the spendings page.  The Carousel component hands its   *)
(* API to setApi once it is initialised; with opts { loop: false } the     *)
(* selected snap stays within the list of scroll snaps, and the API emits  *)
(* "select" when the selected snap changes.                                *)
(***************************************************************************)
\* api.scrollSnapList().length and api.selectedScrollSnap().
scrollSnapCount(e) == e.snaps
selectedScrollSnap(e) == e.selected

\* The snap selected by scrollNext(), scrollPrev() and scrollTo(index).
scrollNext(e) == Min(e.selected + 1, e.snaps - 1)
scrollPrev(e) == Max(e.selected - 1, 0)
scrollTo(e, index) == Max(0, Min(index, e.snaps - 1))

\* Mutant: the selected snap's index itself.
currentOfIndex(e) == selectedScrollSnap(e)

\* The value given to setCurrent: api.selectedScrollSnap() + 1.
currentOf(e) == selectedScrollSnap(e) + 1

\* The progress dots: dot index (from 0) is highlighted when
\* current === index + 1.
ProgressDots(cur, cnt) == [k \in 1..cnt |-> cur = (k - 1) + 1]

\* The Carousel is part of the statistics screen only.
CarouselMounted == sview.screen = "stats"

\* The Carousel component calls setApi with its API.
SetApi ==
    /\ CarouselMounted
    /\ api = "undefined"
    /\ api' = "set"
    /\ UNCHANGED <<current, scount, embla, selVars, themeVars, spendVars,
                   fmtVars, chartVars, netVars>>

\* The effect keyed on api: setCount, setCurrent, api.on("select", ...).
TrackCarousel ==
    /\ api = "set"
    /\ ~embla.listening
    /\ scount' = scrollSnapCount(embla)
    /\ current' = currentOf(embla)
    /\ embla' = [embla EXCEPT !.listening = TRUE]
    /\ UNCHANGED <<api, selVars, themeVars, spendVars, fmtVars, chartVars,
                   netVars>>

\* The carousel selects the snap target; when the snap changes it emits
\* "select" and a registered listener runs setCurrent.
Select(target) ==
    /\ embla' = [embla EXCEPT !.selected = target]
    /\ current' = IF embla.listening /\ target # embla.selected
                  THEN currentOf(embla')
                  ELSE current
    /\ UNCHANGED <<api, scount, selVars, themeVars, spendVars, fmtVars,
                   chartVars, netVars>>

\* CarouselNext and CarouselPrevious are clicked.
ClickNext == CarouselMounted /\ Select(scrollNext(embla))
ClickPrevious == CarouselMounted /\ Select(scrollPrev(embla))

\* A progress dot is clicked: api?.scrollTo(index).
ClickDot ==
    /\ CarouselMounted
    /\ \E index \in 0..(scount - 1) :
          IF api = "set" THEN Select(scrollTo(embla, index))
          ELSE UNCHANGED vars

(***************************************************************************)
(* The fetch each page issues when it is mounted:                          *)
(* fetch(url).then(res => res.json()).then(handler).catch(handler).        *)
(* A rejection of fetch or of res.json() skips the handler given to .then  *)
(* and runs the one given to .catch.                                       *)
(***************************************************************************)
\* The promise after fetch settles: rejected, or res.json() is called.
afterFetch(w) == IF w = "rejects" THEN "rejected" ELSE "parsing"

\* The promise after res.json() settles: rejected, or fulfilled with data.
afterJson(w) == IF w = "invalid JSON" THEN "rejected" ELSE "pending"

\* Mutant: an effect without its empty dependency list, which runs again
\* after the render that follows the fetch.
HomeEffectEveryRender ==
    /\ pc \in {"mounted", "settled"}
    /\ fetches.home < 2
    /\ pc' = "fetching"
    /\ fetches' = [fetches EXCEPT !.home = @ + 1]
    /\ UNCHANGED <<games, fetched, n, topGames, loading, view, themeVars,
                   spendVars, fmtVars, chartVars, carVars, wire, sets>>

\* The effect of Home, run once after the first render: fetch(url).
HomeEffect ==
    /\ pc = "mounted"
    /\ pc' = "fetching"
    /\ fetches' = [fetches EXCEPT !.home = @ + 1]
    /\ UNCHANGED <<games, fetched, n, topGames, loading, view, themeVars,
                   spendVars, fmtVars, chartVars, carVars, wire, sets>>

\* The fetch of Home settles.
HomeResponse ==
    /\ pc = "fetching"
    /\ pc' = afterFetch(wire.home)
    /\ UNCHANGED <<games, fetched, n, topGames, loading, view, themeVars,
                   spendVars, otherVars>>

\* res.json() settles.
HomeJson ==
    /\ pc = "parsing"
    /\ pc' = afterJson(wire.home)
    /\ UNCHANGED <<games, fetched, n, topGames, loading, view, themeVars,
                   spendVars, otherVars>>

\* The effect of GamesChart, run once after the first render.
ChartEffect ==
    /\ cpc = "mounted"
    /\ cpc' = "fetching"
    /\ fetches' = [fetches EXCEPT !.chart = @ + 1]
    /\ UNCHANGED <<cdata, cgames, ctotalGames, ctotalPlaytime, cloading, cview,
                   selVars, themeVars, spendVars, fmtVars, carVars, wire, sets>>

ChartResponse ==
    /\ cpc = "fetching"
    /\ cpc' = afterFetch(wire.chart)
    /\ UNCHANGED <<cdata, cgames, ctotalGames, ctotalPlaytime, cloading, cview,
                   selVars, themeVars, spendVars, fmtVars, carVars, netVars>>

ChartJson ==
    /\ cpc = "parsing"
    /\ cpc' = afterJson(wire.chart)
    /\ UNCHANGED <<cdata, cgames, ctotalGames, ctotalPlaytime, cloading, cview,
                   selVars, themeVars, spendVars, fmtVars, carVars, netVars>>

\* The first effect of Spendings, run once after the first render.
SpendingsEffect ==
    /\ spc = "mounted"
    /\ spc' = "fetching"
    /\ fetches' = [fetches EXCEPT !.spendings = @ + 1]
    /\ UNCHANGED <<data, dataFetched, now, tz, draws, locals, again, stats,
                   sloading, sview, selVars, themeVars,
                   fmtVars, chartVars, carVars, wire, sets>>

SpendingsResponse ==
    /\ spc = "fetching"
    /\ spc' = afterFetch(wire.spendings)
    /\ UNCHANGED <<data, dataFetched, now, tz, draws, locals, again, stats,
                   sloading, sview, selVars, themeVars, otherVars>>

SpendingsJson ==
    /\ spc = "parsing"
    /\ spc' = afterJson(wire.spendings)
    /\ UNCHANGED <<data, dataFetched, now, tz, draws, locals, again, stats,
                   sloading, sview, selVars, themeVars, otherVars>>

(***************************************************************************)
(* Specifications                                                          *)
(***************************************************************************)
NoTheme == [decorative |-> "none"]

ProfileData(created, count, gs) ==
    [player_summary |-> [timecreated |-> created],
     owned_games |-> [game_count |-> count, games |-> gs]]

\* 2013-10-08, 2022-01-01, 2024-01-01, 2025-12-31 23:59:59 and 2028-01-01,
\* all UTC.
Created == {1381190400, 1640995200, 1704067200, 1767225599, 1830297600}

\* 2026-12-31 23:59:59 UTC.
Clock == 1798761599

\* UTC and UTC+1.
Zones == {0, 3600}

\* No page is mounted.
HomeIdle ==
    /\ games = <<>>
    /\ fetched = <<>>
    /\ n = 0
    /\ topGames = <<>>
    /\ loading = TRUE
    /\ view = HomeView(TRUE, <<>>)
    /\ pc = "idle"

ThemeIdle ==
    /\ gameName = <<>>
    /\ theme = NoTheme
    /\ tpc = "idle"

SpendingsIdle ==
    /\ data = ProfileData(0, 0, <<>>)
    /\ dataFetched = data
    /\ now = Clock
    /\ tz = 0
    /\ draws = <<>>
    /\ locals = NoLocals
    /\ again = NoLocals
    /\ stats = NoStats
    /\ sloading = TRUE
    /\ sview = SpendingsView(TRUE, NoStats)
    /\ spc = "idle"

FormatIdle ==
    /\ minutes = 0
    /\ formatted = <<>>
    /\ fpc = "idle"

ChartIdle ==
    /\ cdata = <<>>
    /\ cgames = <<>>
    /\ ctotalGames = 0
    /\ ctotalPlaytime = 0
    /\ cloading = TRUE
    /\ cview = GamesChartView(TRUE, <<>>, 0, 0)
    /\ cpc = "idle"

\* GamesChart is mounted and the response with the array gs has been
\* parsed.
ChartMounted(gs) ==
    /\ cdata = gs
    /\ cgames = <<>>
    /\ ctotalGames = 0
    /\ ctotalPlaytime = 0
    /\ cloading = TRUE
    /\ cview = GamesChartView(TRUE, <<>>, 0, 0)
    /\ cpc = "pending"

\* No carousel: api is undefined, current and count are 0.
CarouselIdle ==
    /\ api = "undefined"
    /\ current = 0
    /\ scount = 0
    /\ embla = [snaps |-> 0, selected |-> 0, listening |-> FALSE]

\* The carousel that Spendings is going to render has snaps scroll snaps.
CarouselReady(snaps) ==
    /\ api = "undefined"
    /\ current = 0
    /\ scount = 0
    /\ embla = [snaps |-> snaps, selected |-> 0, listening |-> FALSE]

\* The number of fetch calls a page at position p has made.
Issued(p) == IF p \in {"idle", "mounted"} THEN 0 ELSE 1

\* The fetches deliver w; no computed data has been set.
Network(w) ==
    /\ wire = w
    /\ fetches = [home |-> Issued(pc), chart |-> Issued(cpc),
                  spendings |-> Issued(spc)]
    /\ sets = [home |-> 0, chart |-> 0, spendings |-> 0]

\* Every response is a profile whose owned_games.games is an array.
Arrays == [home |-> "array", chart |-> "array", spendings |-> "array"]

\* None of the other components is in use.
OtherIdle == FormatIdle /\ ChartIdle /\ CarouselIdle /\ Network(Arrays)

\* Home is mounted and the response with the array gs has been parsed.
HomeMounted(gs, count) ==
    /\ games = gs
    /\ fetched = gs
    /\ n = count
    /\ topGames = <<>>
    /\ loading = TRUE
    /\ view = HomeView(TRUE, <<>>)
    /\ pc = "pending"

\* Spendings is mounted and the response d has been parsed; Math.random()
\* is going to return the values rnd.
SpendingsMounted(d, clock, zone, rnd) ==
    /\ data = d
    /\ dataFetched = d
    /\ now = clock
    /\ tz = zone
    /\ draws = rnd
    /\ locals = NoLocals
    /\ again = NoLocals
    /\ stats = NoStats
    /\ sloading = TRUE
    /\ sview = SpendingsView(TRUE, NoStats)
    /\ spc = "pending"

\* The Top-N selection for every games list and every count.
InitSelect ==
    /\ \E gs \in GameLists, count \in Counts : HomeMounted(gs, count)
    /\ ThemeIdle
    /\ SpendingsIdle
    /\ OtherIdle

NextSelect == SelectTop \/ Render

SpecSelect == InitSelect /\ [][NextSelect]_vars

\* getGameTheme for every name.
InitTheme ==
    /\ gameName \in Names
    /\ theme = NoTheme
    /\ tpc = "call"
    /\ HomeIdle
    /\ SpendingsIdle
    /\ OtherIdle

NextTheme == CallGetGameTheme

SpecTheme == InitTheme /\ [][NextTheme]_vars

\* The spendings page for every profile.
InitSpend ==
    /\ \E gs \in GameListsUpTo(MaxPriced), created \in Created, zone \in Zones :
          \E count \in {Len(gs), Len(gs) + 1, 100}, rnd \in Streams(gs) :
              SpendingsMounted(ProfileData(created, count, gs), Clock, zone, rnd)
    /\ HomeIdle
    /\ ThemeIdle
    /\ OtherIdle

NextSpend == SpendingsThen \/ SpendingsCatch \/ RenderSpendings

SpecSpend == InitSpend /\ [][NextSpend]_vars

\* The estimate for every games array and every stream of draws, of an
\* account created in 2013 whose game_count is the length of the array.
InitPrices ==
    /\ \E gs \in GameListsUpTo(MaxPriced) :
          \E rnd \in Streams(gs) :
              SpendingsMounted(ProfileData(1381190400, Len(gs), gs), Clock, 0, rnd)
    /\ HomeIdle
    /\ ThemeIdle
    /\ OtherIdle

SpecPrices == InitPrices /\ [][NextSpend]_vars

\* The estimate for every game_count of 0..MaxCount, over the arrays with
\* at most one game.
InitCounts ==
    /\ \E gs \in GameListsUpTo(1), count \in 0..MaxCount :
          \E rnd \in Streams(gs) :
              SpendingsMounted(ProfileData(1381190400, count, gs), Clock, 0, rnd)
    /\ HomeIdle
    /\ ThemeIdle
    /\ OtherIdle

SpecCounts == InitCounts /\ [][NextSpend]_vars

\* The estimate for arrays of up to MaxGames games, more than the five
\* that topExpensiveGames keeps, with two outcomes per game.
LongLists ==
    UNION { { [i \in 1..len |-> Game(i, pt[i])] : pt \in [1..len -> {0, 60}] }
            : len \in 0..MaxGames }

InitTop ==
    /\ \E gs \in LongLists :
          \E rnd \in CoarseStreams(gs) :
              SpendingsMounted(ProfileData(1381190400, Len(gs), gs), Clock, 0, rnd)
    /\ HomeIdle
    /\ ThemeIdle
    /\ OtherIdle

SpecTop == InitTop /\ [][NextSpend]_vars

\* The estimate for every creation time and time zone, over arrays of at
\* most MaxSpread played games whose prices spread over every tier.
PlayedLists == { [i \in 1..len |-> Game(i, 60)] : len \in 0..MaxSpread }

InitYears ==
    /\ \E gs \in PlayedLists, created \in Created, zone \in Zones :
          \E rnd \in SpreadStreams(gs) :
              SpendingsMounted(ProfileData(created, Len(gs), gs), Clock, zone, rnd)
    /\ HomeIdle
    /\ ThemeIdle
    /\ OtherIdle

SpecYears == InitYears /\ [][NextSpend]_vars

\* The clocks of a second call: thirty days earlier, the same instant,
\* one second later (2027-01-01 00:00:00 UTC) and thirty days later.
Clocks == {Clock - 2592000, Clock, Clock + 1, Clock + 2592000}

\* calculateSpendingStats applied once more to the same ProfileData object,
\* with Math.random() returning the values rnd, at the time clock.
CallAgain ==
    /\ spc = "settled"
    /\ ~again.called
    /\ \E rnd \in CoarseStreams(data.owned_games.games), clock \in Clocks :
          \E r \in {calculateSpendingStats(data, rnd, clock, tz)} :
              /\ data' = [data EXCEPT !.owned_games.games = r.games]
              /\ again' = [called |-> TRUE, draws |-> rnd, now |-> clock,
                           threw |-> r.threw,
                           stats |-> IF r.threw THEN NoStats ELSE r.stats]
    /\ UNCHANGED <<dataFetched, now, tz, draws, locals, stats, sloading, sview,
                   spc, selVars, themeVars,
                   otherVars>>

\* The games chart for arrays of up to MaxChart games, more than the ten
\* the chart lists; the game at position i is unplayed or has played
\* 30 * (((7 * i) % 5) + 1) minutes, so playtimes repeat and are not in
\* order.
ChartLists ==
    UNION { { [i \in 1..len |->
                  Game(i, IF i \in played THEN 30 * (((7 * i) % 5) + 1) ELSE 0)]
              : played \in SUBSET (1..len) }
            : len \in 0..MaxChart }

InitChart ==
    /\ \E gs \in ChartLists : ChartMounted(gs)
    /\ HomeIdle
    /\ ThemeIdle
    /\ SpendingsIdle
    /\ FormatIdle
    /\ CarouselIdle
    /\ Network(Arrays)

NextChart == ChartThen \/ RenderChart

SpecChart == InitChart /\ [][NextChart]_vars

\* The spendings page with its carousel of 1..MaxSnaps scroll snaps, for
\* the arrays with at most one game.
InitCarousel ==
    /\ \E gs \in GameListsUpTo(1), snaps \in 1..MaxSnaps :
          /\ \E rnd \in CoarseStreams(gs) :
                SpendingsMounted(ProfileData(1381190400, Len(gs), gs), Clock, 0, rnd)
          /\ CarouselReady(snaps)
    /\ HomeIdle
    /\ ThemeIdle
    /\ FormatIdle
    /\ ChartIdle
    /\ Network(Arrays)

NextCarousel ==
    \/ SpendingsThen \/ SpendingsCatch \/ RenderSpendings
    \/ SetApi \/ TrackCarousel \/ ClickNext \/ ClickPrevious \/ ClickDot

SpecCarousel == InitCarousel /\ [][NextCarousel]_vars

\* What a fetch may deliver.
Wires == {"rejects", "invalid JSON", "missing", "not an array", "array"}

\* The arrays a response delivering w holds.
ListsOn(w) == IF w = "array" THEN GameListsUpTo(MaxPriced) ELSE { <<>> }

\* A page that has just been mounted: it has rendered its loading screen
\* and its effect has not run yet.  The response is going to hold gs.
HomeStarted(gs) ==
    /\ games = gs
    /\ fetched = gs
    /\ n = TopLanding
    /\ topGames = <<>>
    /\ loading = TRUE
    /\ view = HomeView(TRUE, <<>>)
    /\ pc = "mounted"

ChartStarted(gs) ==
    /\ cdata = gs
    /\ cgames = <<>>
    /\ ctotalGames = 0
    /\ ctotalPlaytime = 0
    /\ cloading = TRUE
    /\ cview = GamesChartView(TRUE, <<>>, 0, 0)
    /\ cpc = "mounted"

SpendingsStarted(gs, rnd) ==
    /\ data = ProfileData(1381190400, Len(gs), gs)
    /\ dataFetched = data
    /\ now = Clock
    /\ tz = 0
    /\ draws = rnd
    /\ locals = NoLocals
    /\ again = NoLocals
    /\ stats = NoStats
    /\ sloading = TRUE
    /\ sview = SpendingsView(TRUE, NoStats)
    /\ spc = "mounted"

\* One of the three pages has just been mounted; its fetch is going to
\* deliver any of Wires.
InitFetch ==
    /\ \E page \in {"home", "chart", "spendings"}, w \in Wires :
          \E gs \in ListsOn(w) :
             /\ IF page = "home" THEN HomeStarted(gs) ELSE HomeIdle
             /\ IF page = "chart" THEN ChartStarted(gs) ELSE ChartIdle
             /\ IF page = "spendings"
                THEN \E rnd \in CoarseStreams(gs) : SpendingsStarted(gs, rnd)
                ELSE SpendingsIdle
             /\ Network([Arrays EXCEPT ![page] = w])
    /\ ThemeIdle
    /\ FormatIdle
    /\ CarouselIdle

NextFetch ==
    \/ HomeEffect \/ HomeResponse \/ HomeJson \/ SelectTop \/ HomeCatch \/ Render
    \/ ChartEffect \/ ChartResponse \/ ChartJson \/ ChartThen \/ ChartCatch
    \/ RenderChart
    \/ SpendingsEffect \/ SpendingsResponse \/ SpendingsJson \/ SpendingsThen
    \/ SpendingsCatch \/ RenderSpendings

SpecFetch == InitFetch /\ [][NextFetch]_vars

\* Every step of the pages but the handler of Spendings' parsed response.
OtherSteps ==
    \/ HomeEffect \/ HomeResponse \/ HomeJson \/ SelectTop \/ HomeCatch \/ Render
    \/ ChartEffect \/ ChartResponse \/ ChartJson \/ ChartThen \/ ChartCatch
    \/ RenderChart
    \/ SpendingsEffect \/ SpendingsResponse \/ SpendingsJson
    \/ SpendingsCatch \/ RenderSpendings

\* Whatever is due is eventually done: React runs a mounted component's
\* effect and renders after a state change, a settled promise's handler
\* runs from the microtask queue, and the fetch and res.json() are assumed
\* to settle.  SpendingsThen is enabled exactly when spc = "pending" and
\* every step of it leaves that position, so its weak fairness,
\* WF_vars(SpendingsThen), is the formula []<>(spc # "pending").
Scheduling ==
    /\ WF_vars(OtherSteps)
    /\ []<>(spc # "pending")

SpecFetchFair == SpecFetch /\ Scheduling

\* formatPlaytime for every playtime of 0..MaxMinutes and the longest
\* playtime of the profile.
InitFormat ==
    /\ minutes \in (0..MaxMinutes) \cup {96973}
    /\ formatted = <<>>
    /\ fpc = "call"
    /\ HomeIdle
    /\ ThemeIdle
    /\ SpendingsIdle
    /\ ChartIdle
    /\ CarouselIdle
    /\ Network(Arrays)

NextFormat == CallFormatPlaytime

SpecFormat == InitFormat /\ [][NextFormat]_vars

\* Two calls of calculateSpendingStats on the same object, each with its
\* own draws and clock.
InitTwice ==
    /\ \E gs \in GameListsUpTo(MaxPriced) :
          \E rnd \in CoarseStreams(gs) :
              SpendingsMounted(ProfileData(1381190400, Len(gs), gs), Clock, 0, rnd)
    /\ HomeIdle
    /\ ThemeIdle
    /\ OtherIdle

NextTwice == SpendingsThen \/ SpendingsCatch \/ RenderSpendings \/ CallAgain

SpecTwice == InitTwice /\ [][NextTwice]_vars

\* The landing page and the spendings page, each with its own parse of the
\* same response.
InitPages ==
    /\ \E gs \in GameListsUpTo(MaxPriced) :
          /\ HomeMounted(gs, TopLanding)
          /\ \E rnd \in Streams(gs) :
                SpendingsMounted(ProfileData(1381190400, Len(gs), gs), Clock, 0, rnd)
    /\ ThemeIdle
    /\ OtherIdle

NextPages ==
    SelectTop \/ Render \/ SpendingsThen \/ SpendingsCatch \/ RenderSpendings

SpecPages == InitPages /\ [][NextPages]_vars

(***************************************************************************)
(* Properties of the Top-N selection (SpecSelect)                          *)
(***************************************************************************)
Settled == pc = "settled"

PlaytimeAt(s, i) == s[i].playtime_forever

\* k: the number of fetched games with playtime > 0.
PlayedCount == Cardinality({ j \in 1..Len(fetched) : PlaytimeAt(fetched, j) > 0 })

NoUnplayed == \A i \in 1..Len(topGames) : PlaytimeAt(topGames, i) # 0

IsReturned(g) == \E i \in 1..Len(topGames) : topGames[i] = g

C2_SortedDescending ==
    Settled =>
        \A i \in 1..(Len(topGames) - 1) :
            PlaytimeAt(topGames, i) >= PlaytimeAt(topGames, i + 1)

\* The response was in ascending order somewhere and the selection holds
\* games of different playtime.
C2_Witness ==
    /\ Settled
    /\ Len(topGames) >= 3
    /\ PlaytimeAt(topGames, 1) > PlaytimeAt(topGames, Len(topGames))
    /\ \E j \in 1..(Len(fetched) - 1) :
          /\ PlaytimeAt(fetched, j) > 0
          /\ PlaytimeAt(fetched, j) < PlaytimeAt(fetched, j + 1)

\* C3: for n >= 0 the selection has min(n, k) records, each a record of the
\* response and none twice, and every played game left out has a playtime
\* <= that of every game returned.
C3_FirstMinNK ==
    (Settled /\ n >= 0) =>
        /\ Len(topGames) = Min(n, PlayedCount)
        /\ \A i \in 1..Len(topGames) :
              \E j \in 1..Len(fetched) : fetched[j] = topGames[i]
        /\ \A i, j \in 1..Len(topGames) : i # j => topGames[i] # topGames[j]
        /\ \A j \in 1..Len(fetched) :
              (PlaytimeAt(fetched, j) > 0 /\ ~IsReturned(fetched[j])) =>
                  \A i \in 1..Len(topGames) :
                      PlaytimeAt(fetched, j) <= PlaytimeAt(topGames, i)

\* A played game is left out, and it was ahead of a returned game in the
\* response.
C3_Witness ==
    /\ Settled
    /\ n >= 1
    /\ Len(topGames) = n
    /\ \E j \in 1..Len(fetched) :
          /\ PlaytimeAt(fetched, j) > 0
          /\ ~IsReturned(fetched[j])
          /\ \E l \in (j + 1)..Len(fetched) : IsReturned(fetched[l])

\* C4: two returned games of equal playtime stand in the order they had in
\* the response.
C4_StableTies ==
    Settled =>
        \A i, j \in 1..Len(topGames) :
            (i < j /\ PlaytimeAt(topGames, i) = PlaytimeAt(topGames, j)) =>
                \E a, b \in 1..Len(fetched) :
                    a < b /\ fetched[a] = topGames[i] /\ fetched[b] = topGames[j]

\* Two games tie in the selection, and a game with more playtime came after
\* both of them in the response.
C4_Witness ==
    /\ Settled
    /\ \E i, j \in 1..Len(topGames) :
          /\ i < j
          /\ PlaytimeAt(topGames, i) = PlaytimeAt(topGames, j)
          /\ \E l \in 1..Len(fetched) :
                /\ l > topGames[j].appid
                /\ PlaytimeAt(fetched, l) > PlaytimeAt(topGames, i)

Returned == tpc = "returned"

UpperChar(c) ==
    IF \E k \in 1..Len(LowerCase) : LowerCase[k] = c
    THEN UpperCase[CHOOSE k \in 1..Len(LowerCase) : LowerCase[k] = c]
    ELSE c

\* The lower-case pattern pat occurs in str with each letter in either case.
ContainsAnyCase(str, pat) ==
    \E i \in 0..(Len(str) - Len(pat)) :
        \A j \in 1..Len(pat) : str[i + j] \in {pat[j], UpperChar(pat[j])}

HasWarframe == ContainsAnyCase(gameName, PatWarframe)
HasTrove == ContainsAnyCase(gameName, PatTrove)
HasSkyrim ==
    ContainsAnyCase(gameName, PatSkyrim) \/ ContainsAnyCase(gameName, PatElderScrolls)
HasHollowKnight == ContainsAnyCase(gameName, PatHollowKnight)

StrWarframeX == <<"W","A","R","F","R","A","M","E"," ","X">>
StrWarframe1999 == <<"w","a","r","f","r","a","m","e",":"," ","1","9","9","9">>
StrElderScrollsSkyrim ==
    <<"T","h","e"," ","E","l","d","e","r"," ","S","c","r","o","l","l","s"," ","V",":"," ","S","k","y","r","i","m">>
StrMinecraft == <<"M","i","n","e","c","r","a","f","t">>
StrHollowTroveWarframe ==
    <<"H","O","L","L","O","W"," ","k","n","i","g","h","t","T","r","o","v","e","W","A","R","F","R","A","M","E">>

\* C7 (as stated): a name containing "warframe" in any letter case gets the
\* Warframe theme, and a name containing "skyrim" or "elder scrolls" in any
\* letter case gets the Skyrim theme.
C7_SubstringAnyCase ==
    Returned =>
        /\ HasWarframe => theme = WarframeTheme
        /\ HasSkyrim => theme = SkyrimTheme

\* C7 (amended): a name containing "warframe" in any letter case gets the
\* Warframe theme; a name containing "skyrim" or "elder scrolls" in any
\* letter case gets the Skyrim theme provided it contains neither "warframe"
\* nor "trove", which are tested first.
C7_SubstringAnyCaseUnlessEarlier ==
    Returned =>
        /\ HasWarframe => theme = WarframeTheme
        /\ (HasSkyrim /\ ~HasWarframe /\ ~HasTrove) => theme = SkyrimTheme
        /\ gameName \in {Catalog[1], StrWarframeX, StrWarframe1999}
              => theme = WarframeTheme
        /\ gameName = StrElderScrollsSkyrim => theme = SkyrimTheme

\* "WARFRAME X" was looked up.
C7_Witness ==
    /\ Returned
    /\ gameName = StrWarframeX
    /\ theme.decorative = "hexagon"

\* C8: the theme is that of the first pattern, in the order warframe,
\* trove, skyrim / elder scrolls, hollow knight, that the name contains,
\* wherever in the name it stands.
C8_FirstMatchWins ==
    Returned =>
        /\ HasWarframe => theme = WarframeTheme
        /\ (~HasWarframe /\ HasTrove) => theme = TroveTheme
        /\ (~HasWarframe /\ ~HasTrove /\ HasSkyrim) => theme = SkyrimTheme
        /\ (~HasWarframe /\ ~HasTrove /\ ~HasSkyrim /\ HasHollowKnight)
              => theme = HollowKnightTheme

\* A name with three patterns, the first of the order standing last.
C8_Witness ==
    /\ Returned
    /\ gameName = StrHollowTroveWarframe
    /\ theme = WarframeTheme

\* C9: every name gets one of the five themes, and a name that contains no
\* pattern gets the default theme: #00d4ff, #ffd700, "Your gaming journey
\* continues", circle.
C9_TotalWithDefault ==
    Returned =>
        /\ theme \in {WarframeTheme, TroveTheme, SkyrimTheme,
                      HollowKnightTheme, DefaultTheme}
        /\ (~HasWarframe /\ ~HasTrove /\ ~HasSkyrim /\ ~HasHollowKnight) =>
              /\ theme.primaryColor = "#00d4ff"
              /\ theme.secondaryColor = "#ffd700"
              /\ theme.tagline = "Your gaming journey continues"
              /\ theme.decorative = "circle"
              /\ theme.background =
                    "linear-gradient(135deg, #1e1e2e 0%, #2d1b3d 50%, #1e1e2e 100%)"

\* "Minecraft" was looked up.
C9_Witness ==
    /\ Returned
    /\ gameName = StrMinecraft
    /\ theme.decorative = "circle"

(***************************************************************************)
(* End to end on the landing page (SpecSelect)                             *)
(***************************************************************************)
EndToEndGames ==
    << [appid |-> 1, name |-> <<"W","a","r","f","r","a","m","e">>,
        playtime_forever |-> 96973],
       [appid |-> 2, name |-> <<"S","t","a","r","d","e","w"," ","V","a","l","l","e","y">>,
        playtime_forever |-> 0] >>

\* C10: for [Warframe 96973, Stardew Valley 0] the top-4 selection is the
\* single record Warframe, and its section gets the theme #00d4ff, #ffd700,
\* hexagon, "Your journey through the Origin System continues".
C10_EndToEnd ==
    (fetched = EndToEndGames /\ n = 4) =>
        /\ Settled => topGames = <<EndToEndGames[1]>>
        /\ view.screen # "loading" =>
              /\ view.screen = "games"
              /\ Len(view.sections) = 1
              /\ view.sections[1].game.name = Catalog[1]
              /\ view.sections[1].theme.primaryColor = "#00d4ff"
              /\ view.sections[1].theme.secondaryColor = "#ffd700"
              /\ view.sections[1].theme.decorative = "hexagon"
              /\ view.sections[1].theme.tagline =
                    "Your journey through the Origin System continues"

\* The page has rendered that response.
C10_Witness ==
    /\ fetched = EndToEndGames
    /\ n = 4
    /\ view.screen = "games"
    /\ view.sections[1].rank = 1

(***************************************************************************)
(* The inputs of the selection and of the estimator (SpecPages)            *)
(***************************************************************************)
\* C6: the fetched games array, its order and every record's fields, is the
\* same after the Top-N selection and after calculateSpendingStats as it
\* was when parsed.
C6_InputUnchanged ==
    /\ pc = "settled" => games = fetched
    /\ spc \in {"settled", "rejected"} => data = dataFetched

\* Both handlers have run; the selection dropped or moved a game and the
\* estimator's top list starts with another game than the response.
C6_Witness ==
    /\ pc = "settled"
    /\ spc = "settled"
    /\ stats # NoStats
    /\ Len(fetched) >= 2
    /\ topGames # fetched
    /\ topGames # <<>>
    /\ stats.topExpensiveGames[1].name # fetched[1].name

(***************************************************************************)
(* The counts of the estimate (SpecCounts)                                 *)
(***************************************************************************)
\* f is the floor of x * hundredths / 100.
IsFloorOf(f, x, hundredths) ==
    /\ 100 * f <= x * hundredths
    /\ x * hundredths < 100 * (f + 1)

\* calculateSpendingStats has returned a SpendingStats.
Estimated == spc = "settled" /\ stats # NoStats

\* C11: for every game_count >= 0 the estimate has estimatedFreeGames =
\* floor(game_count * 0.15) and estimatedPaidGames = game_count -
\* estimatedFreeGames, so the two sum to game_count = gamesOwned; a
\* game_count of 100 gives 15 free and 85 paid games.
C11_FreeAndPaidGames ==
    Estimated =>
        LET count == dataFetched.owned_games.game_count
        IN  /\ IsFloorOf(stats.estimatedFreeGames, count, 15)
            /\ stats.estimatedPaidGames = count - stats.estimatedFreeGames
            /\ stats.estimatedFreeGames + stats.estimatedPaidGames = count
            /\ stats.gamesOwned = count
            /\ count = 100 =>
                  stats.estimatedFreeGames = 15 /\ stats.estimatedPaidGames = 85

\* The estimate of a library of 100 games.
C11_Witness ==
    /\ Estimated
    /\ dataFetched.owned_games.game_count = 100
    /\ stats.gamesOwned = 100
    /\ stats.estimatedFreeGames = 15

(***************************************************************************)
(* The prices of the estimate (SpecPrices)                                 *)
(***************************************************************************)
\* The price assigned to the k-th game and the values Math.random()
\* returned to the callback for it: for a game with no playtime the first
\* value is the free-game draw; the tier draw is the last but one of a game
\* that was not made free.
PriceAt(k) == locals.gamesWithPrices[k].estimatedPrice
DrawnAt(k) == locals.drawn[k]
MadeFree(k) ==
    locals.gamesWithPrices[k].playtime_forever = 0 /\ DrawnAt(k)[1] < 150
TierDrawAt(k) == DrawnAt(k)[Len(DrawnAt(k)) - 1]

\* C12: a game with no playtime whose first draw is below 0.15 is priced 0;
\* every other game is priced by its tier draw r: an integer of [40, 70)
\* for r < 0.3, of [5, 30) for 0.3 <= r < 0.8 and of [1, 10) for r >= 0.8,
\* and the game keeps the fields it had.
C12_PriceTiers ==
    locals.called =>
        /\ Len(locals.gamesWithPrices) = Len(dataFetched.owned_games.games)
        /\ \A k \in 1..Len(locals.gamesWithPrices) :
              /\ locals.gamesWithPrices[k].appid = dataFetched.owned_games.games[k].appid
              /\ locals.gamesWithPrices[k].playtime_forever =
                    dataFetched.owned_games.games[k].playtime_forever
              /\ IF MadeFree(k)
                 THEN PriceAt(k) = 0 /\ Len(DrawnAt(k)) = 1
                 ELSE /\ TierDrawAt(k) < 300 => PriceAt(k) \in 40..69
                      /\ TierDrawAt(k) >= 300 /\ TierDrawAt(k) < 800 =>
                            PriceAt(k) \in 5..29
                      /\ TierDrawAt(k) >= 800 => PriceAt(k) \in 1..9

\* An unplayed game that drew exactly 0.15 and then exactly 0.3 is priced
\* in the indie tier, and a game that drew exactly 0.8 in the budget tier.
C12_Witness ==
    /\ locals.called
    /\ Len(locals.gamesWithPrices) = 2
    /\ DrawnAt(1) = <<150, 300, 999>>
    /\ PriceAt(1) = 29
    /\ DrawnAt(2) = <<800, 0>>
    /\ PriceAt(2) = 1

\* C15: for a non-empty games list mostExpensiveGame is a game of the list
\* whose price is at least the price of every other game, and the first
\* such game of the list.
C15_MostExpensiveIsFirstMaximum ==
    (Estimated /\ Len(dataFetched.owned_games.games) > 0) =>
        \E k \in 1..Len(locals.gamesWithPrices) :
            /\ stats.mostExpensiveGame.name = dataFetched.owned_games.games[k].name
            /\ stats.mostExpensiveGame.price = PriceAt(k)
            /\ \A j \in 1..Len(locals.gamesWithPrices) : PriceAt(j) <= PriceAt(k)
            /\ \A j \in 1..(k - 1) : PriceAt(j) < PriceAt(k)

\* Two games share the highest price and the first one is reported.
C15_Witness ==
    /\ Estimated
    /\ Len(locals.gamesWithPrices) = 2
    /\ PriceAt(1) = PriceAt(2)
    /\ PriceAt(1) > 0
    /\ stats.mostExpensiveGame.name = dataFetched.owned_games.games[1].name
    /\ stats.mostExpensiveGame.price = PriceAt(2)

(***************************************************************************)
(* The degenerate inputs of the estimate (SpecSpend)                       *)
(***************************************************************************)
RECURSIVE SumOfPrices(_)
SumOfPrices(k) == IF k = 0 THEN 0 ELSE PriceAt(k) + SumOfPrices(k - 1)

\* C13: totalSpent is the sum of the prices assigned to the games of the
\* list and averagePerGame is totalSpent / estimatedPaidGames; when
\* estimatedPaidGames is 0 the division is guarded and averagePerGame is a
\* number, not the result of a division by zero.
C13_TotalAndGuardedAverage ==
    locals.called =>
        /\ locals.totalSpent = SumOfPrices(Len(locals.gamesWithPrices))
        /\ locals.estimatedPaidGames # 0 =>
              locals.averagePerGame =
                 [kind |-> "quotient", num |-> locals.totalSpent,
                  den |-> locals.estimatedPaidGames]
        /\ locals.estimatedPaidGames = 0 =>
              locals.averagePerGame.kind = "quotient"
        /\ Estimated =>
              /\ stats.totalSpent = locals.totalSpent
              /\ stats.averagePerGame = locals.averagePerGame

\* C14: for an empty games array calculateSpendingStats does not throw; it
\* returns an estimate with totalSpent 0, no topExpensiveGames and category
\* totals of 0, and the page shows the statistics, not its failure screen.
C14_EmptyLibraryShowsStats ==
    (locals.called /\ Len(dataFetched.owned_games.games) = 0) =>
        /\ spc # "rejected"
        /\ stats # NoStats
        /\ stats.totalSpent = 0
        /\ stats.topExpensiveGames = <<>>
        /\ \A k \in 1..Len(stats.categoryBreakdown) :
              stats.categoryBreakdown[k].total = 0
        /\ sview.screen \in {"loading", "stats"}

(***************************************************************************)
(* The list of the most expensive games (SpecTop)                          *)
(***************************************************************************)
\* The game at position j of the list is the one entry e was made from.
MadeFrom(e, j) ==
    /\ e.name = dataFetched.owned_games.games[j].name
    /\ e.price = PriceAt(j)
    /\ e.playtime = dataFetched.owned_games.games[j].playtime_forever

\* The positions of the games that have no entry in topExpensiveGames;
\* the names of a list are distinct.
LeftOut ==
    { j \in 1..Len(dataFetched.owned_games.games) :
        \A k \in 1..Len(stats.topExpensiveGames) :
            stats.topExpensiveGames[k].name # dataFetched.owned_games.games[j].name }

\* C16: topExpensiveGames has min(5, number of games) entries in
\* non-increasing order of price, every game left out costs at most the
\* last entry, and each entry has the name, price and playtime_forever of
\* one game record.
C16_TopExpensiveGames ==
    Estimated =>
        LET top == stats.topExpensiveGames
        IN  /\ Len(top) = Min(5, Len(dataFetched.owned_games.games))
            /\ \A k \in 1..(Len(top) - 1) : top[k].price >= top[k + 1].price
            /\ \A k \in 1..Len(top) :
                  \E j \in 1..Len(dataFetched.owned_games.games) : MadeFrom(top[k], j)
            /\ \A k, l \in 1..Len(top) : k # l => top[k].name # top[l].name
            /\ \A j \in LeftOut : PriceAt(j) <= top[Len(top)].price

\* Six games of three prices: five are listed from 40 down to 9, and the
\* game left out costs no more than the last one listed.
C16_Witness ==
    /\ Estimated
    /\ Len(dataFetched.owned_games.games) = 6
    /\ Len(stats.topExpensiveGames) = 5
    /\ stats.topExpensiveGames[1].price = 40
    /\ stats.topExpensiveGames[1].playtime = 60
    /\ stats.topExpensiveGames[5].price = 9
    /\ stats.topExpensiveGames[5].playtime = 0
    /\ \E j \in LeftOut : PriceAt(j) = 0

(***************************************************************************)
(* The yearly breakdown (SpecYears)                                        *)
(***************************************************************************)
\* currentYear and accountYears as the estimate reads them, in the
\* browser's time zone.
CurrentYear == getFullYear(now, tz)
AccountYears ==
    CurrentYear - getFullYear(dataFetched.player_summary.timecreated, tz) + 1

\* max(0, floor(total * (0.3 - i * 0.05))) in exact arithmetic, the weight
\* being (30 - 5 * i) / 100.
ExactAmount(total, i) == Max(0, (total * (30 - 5 * i)) \div 100)

\* C17: yearlyBreakdown has max(0, min(accountYears, 5)) entries, entry i
\* (from 0) has year = currentYear - i and amount =
\* max(0, floor(totalSpent * (0.3 - i * 0.05))), and an account created in
\* a future year has an empty breakdown.
C17_YearlyBreakdown ==
    Estimated =>
        LET yb == stats.yearlyBreakdown
        IN  /\ Len(yb) = Max(0, Min(AccountYears, 5))
            /\ AccountYears <= 0 => yb = <<>>
            /\ \A k \in 1..Len(yb) :
                  /\ yb[k].year = CurrentYear - (k - 1)
                  /\ yb[k].amount = ExactAmount(stats.totalSpent, k - 1)

RECURSIVE SumOfAmounts(_, _)
SumOfAmounts(yb, k) == IF k = 0 THEN 0 ELSE yb[k].amount + SumOfAmounts(yb, k - 1)

\* C18: the yearly amounts are non-negative and do not grow as the year
\* goes back, the years strictly decrease and are distinct, and the amounts
\* sum to at most totalSpent (they need not sum to totalSpent).
C18_DecreasingApproximation ==
    Estimated =>
        LET yb == stats.yearlyBreakdown
        IN  /\ \A k \in 1..Len(yb) : yb[k].amount >= 0
            /\ \A k \in 1..(Len(yb) - 1) :
                  /\ yb[k].amount >= yb[k + 1].amount
                  /\ yb[k].year > yb[k + 1].year
            /\ \A k, l \in 1..Len(yb) : k # l => yb[k].year # yb[l].year
            /\ SumOfAmounts(yb, Len(yb)) <= stats.totalSpent

\* Five years whose amounts fall from the first to the last and sum to
\* less than the total spent.
C18_Witness ==
    /\ Estimated
    /\ Len(stats.yearlyBreakdown) = 5
    /\ stats.yearlyBreakdown[1].amount > stats.yearlyBreakdown[5].amount
    /\ stats.yearlyBreakdown[5].amount > 0
    /\ SumOfAmounts(stats.yearlyBreakdown, 5) < stats.totalSpent

(***************************************************************************)
(* The category breakdown (SpecCounts)                                     *)
(***************************************************************************)
\* C19: categoryBreakdown has the three entries "AAA Titles", "Indie
\* Games" and "Budget Games", in this order, with the counts floor of 0.3,
\* 0.5 and 0.2 of game_count and the totals floor of 0.55, 0.30 and 0.15 of
\* totalSpent, whatever tier each game was priced in.
C19_CategoryBreakdown ==
    Estimated =>
        LET cb    == stats.categoryBreakdown
            count == dataFetched.owned_games.game_count
        IN  /\ Len(cb) = 3
            /\ cb[1].category = "AAA Titles"
            /\ cb[2].category = "Indie Games"
            /\ cb[3].category = "Budget Games"
            /\ IsFloorOf(cb[1].count, count, 30)
            /\ IsFloorOf(cb[2].count, count, 50)
            /\ IsFloorOf(cb[3].count, count, 20)
            /\ IsFloorOf(cb[1].total, stats.totalSpent, 55)
            /\ IsFloorOf(cb[2].total, stats.totalSpent, 30)
            /\ IsFloorOf(cb[3].total, stats.totalSpent, 15)

\* The only game was priced in the budget tier, and the AAA category still
\* has 30 of 100 games and 55 % of the total.
C19_Witness ==
    /\ Estimated
    /\ dataFetched.owned_games.game_count = 100
    /\ Len(locals.gamesWithPrices) = 1
    /\ ~MadeFree(1)
    /\ TierDrawAt(1) >= 800
    /\ stats.totalSpent = 9
    /\ stats.categoryBreakdown[1].count = 30
    /\ stats.categoryBreakdown[1].total = 4
    /\ stats.categoryBreakdown[3].total = 1

\* C20: for every game_count >= 0 the three category counts sum to at most
\* game_count, and the three category totals to at most totalSpent.
C20_CategorySums ==
    Estimated =>
        LET cb == stats.categoryBreakdown
        IN  /\ cb[1].count + cb[2].count + cb[3].count
                  <= dataFetched.owned_games.game_count
            /\ cb[1].total + cb[2].total + cb[3].total <= stats.totalSpent

\* Seven games are split 2 + 3 + 1 and a total of 9 is split 4 + 2 + 1.
C20_Witness ==
    /\ Estimated
    /\ dataFetched.owned_games.game_count = 7
    /\ stats.categoryBreakdown[1].count + stats.categoryBreakdown[2].count
          + stats.categoryBreakdown[3].count = 6
    /\ stats.totalSpent = 9
    /\ stats.categoryBreakdown[1].total + stats.categoryBreakdown[2].total
          + stats.categoryBreakdown[3].total = 7

(***************************************************************************)
(* Two calls of the estimate (SpecTwice)                                   *)
(***************************************************************************)
\* The first second of the year y, in Unix seconds (UTC), by counting the
\* leap days before y; and whether two instants fall in the same year of
\* the time zone.
YearStart(y) ==
    SecondsPerDay * (365 * (y - 1970) + ((y - 1) \div 4) - ((y - 1) \div 100)
                     + ((y - 1) \div 400) - 477)
SameYear(a, b, zone) ==
    \E y \in 2020..2030 :
        /\ YearStart(y) <= a + zone /\ a + zone < YearStart(y + 1)
        /\ YearStart(y) <= b + zone /\ b + zone < YearStart(y + 1)

OtherDrawsOtherTotal ==
    /\ again.called
    /\ again.draws # draws
    /\ stats # NoStats
    /\ again.stats.totalSpent # stats.totalSpent

(***************************************************************************)
(* The most expensive game and the top list (SpecTop)                      *)
(***************************************************************************)
\* C28: for a non-empty games list mostExpensiveGame has the name and the
\* price of the first entry of topExpensiveGames.
C28_MostExpensiveIsTopEntry ==
    (Estimated /\ Len(dataFetched.owned_games.games) > 0) =>
        /\ Len(stats.topExpensiveGames) > 0
        /\ stats.mostExpensiveGame.name = stats.topExpensiveGames[1].name
        /\ stats.mostExpensiveGame.price = stats.topExpensiveGames[1].price

\* The second and the third game share the highest price; the second one
\* is both the most expensive game and the first entry.
C28_Witness ==
    /\ Estimated
    /\ Len(locals.gamesWithPrices) >= 3
    /\ PriceAt(1) < PriceAt(2)
    /\ PriceAt(2) = PriceAt(3)
    /\ \A j \in 1..Len(locals.gamesWithPrices) : PriceAt(j) <= PriceAt(2)
    /\ stats.mostExpensiveGame.name = dataFetched.owned_games.games[2].name
    /\ stats.topExpensiveGames[1].name = dataFetched.owned_games.games[2].name

(***************************************************************************)
(* The range of the prices (SpecPrices)                                    *)
(***************************************************************************)
\* The number of games of the list with playtime > 0.
PlayedGames ==
    Cardinality({ k \in 1..Len(dataFetched.owned_games.games) :
                    dataFetched.owned_games.games[k].playtime_forever > 0 })

\* C29: a game with playtime > 0 is never priced 0, every price is an
\* integer of 0..69, and so the number of played games <= totalSpent <=
\* 69 * the number of games.
C29_PriceRange ==
    locals.called =>
        /\ \A k \in 1..Len(locals.gamesWithPrices) :
              /\ PriceAt(k) \in 0..69
              /\ dataFetched.owned_games.games[k].playtime_forever > 0 => PriceAt(k) > 0
        /\ PlayedGames <= locals.totalSpent
        /\ locals.totalSpent <= 69 * Len(dataFetched.owned_games.games)
        /\ Estimated => stats.totalSpent = locals.totalSpent

\* Two played games at the lowest price: totalSpent is the number of
\* played games.
C29_Witness ==
    /\ Estimated
    /\ Len(locals.gamesWithPrices) = 2
    /\ PlayedGames = 2
    /\ PriceAt(1) = 1
    /\ stats.totalSpent = 2

\* Two games at the highest price.
HighestTotal == Estimated /\ PlayedGames = 1 /\ stats.totalSpent = 138

(***************************************************************************)
(* Playtime formatting (SpecFormat)                                        *)
(***************************************************************************)
\* C27: the landing and chart formatters show the minutes below 60, hours
\* from 60 to 1439, and from 1440 on days = floor(minutes / 1440) with
\* remaining hours = floor(minutes / 60) mod 24, so that 0 <= hours <= 23
\* and days * 24 + hours = floor(minutes / 60); the spendings formatter
\* gives the same days and hours from 1440 on.
C27_PlaytimeSplit ==
    fpc = "returned" =>
        \A f \in {formatted.landing, formatted.chart} :
            /\ minutes < 60 => f.shape = "minutes" /\ f.minutes = minutes
            /\ (minutes >= 60 /\ minutes < 1440) => f.shape = "hours"
            /\ minutes >= 1440 =>
                  /\ f.shape = "days"
                  /\ 1440 * f.days <= minutes
                  /\ minutes < 1440 * (f.days + 1)
                  /\ f.hours \in 0..23
                  /\ 60 * (f.days * 24 + f.hours) <= minutes
                  /\ minutes < 60 * (f.days * 24 + f.hours + 1)
                  /\ formatted.spendings.shape = "days"
                  /\ formatted.spendings.days = f.days
                  /\ formatted.spendings.hours = f.hours

\* 96973 minutes are 67 days 8 hours on every page.
C27_Witness ==
    /\ fpc = "returned"
    /\ minutes = 96973
    /\ formatted.landing.days = 67
    /\ formatted.landing.hours = 8
    /\ formatted.chart.days = 67
    /\ formatted.spendings.hours = 8

(***************************************************************************)
(* The games chart (SpecChart)                                             *)
(***************************************************************************)
\* The positions of the parsed array whose game has playtime > 0, and the
\* sum of the playtime of the games at the positions ks.
PlayedPositions == { k \in 1..Len(cdata) : cdata[k].playtime_forever > 0 }

RECURSIVE PlaytimeOver(_)
PlaytimeOver(ks) ==
    IF ks = {} THEN 0
    ELSE LET k == CHOOSE x \in ks : TRUE
         IN  cdata[k].playtime_forever + PlaytimeOver(ks \ {k})

\* The positions of the games that have a row in the Top 10 table.
Listed == { k \in 1..Len(cdata) :
              \E i \in 1..Len(cview.table) : cview.table[i].key = cdata[k].appid }

\* C22: chartData lists the 10 most played games with ranks 1..10 in
\* playtime order, the same games in the same order as the Top 10 table,
\* and has one more entry "Others" of rank 11 exactly when more than 10
\* games have playtime > 0; its minutes are the playtime of all played
\* games beyond the tenth, so chartData has at most 11 entries.
C22_ChartData ==
    (cpc = "settled" /\ cview.screen = "chart") =>
        LET cd    == cview.chartData
            shown == Min(10, Cardinality(PlayedPositions))
        IN  /\ Len(cview.table) = shown
            /\ Listed \subseteq PlayedPositions
            /\ Cardinality(Listed) = shown
            /\ \A k \in PlayedPositions \ Listed, l \in Listed :
                  cdata[k].playtime_forever <= cdata[l].playtime_forever
            /\ \A i \in 1..shown :
                  /\ cd[i].rank = i
                  /\ cview.table[i].rank = i
                  /\ cd[i].name = cview.table[i].name
                  /\ cd[i].value = cview.table[i].hours
                  /\ \E k \in Listed :
                        /\ cdata[k].appid = cview.table[i].key
                        /\ cdata[k].name = cd[i].name
                        /\ cdata[k].playtime_forever = cd[i].minutes
                  /\ i < shown => cd[i].minutes >= cd[i + 1].minutes
            /\ Len(cd) = shown + (IF Cardinality(PlayedPositions) > 10 THEN 1 ELSE 0)
            /\ Len(cd) <= 11
            /\ Cardinality(PlayedPositions) > 10 =>
                  /\ cd[11].rank = 11
                  /\ cd[11].minutes = PlaytimeOver(PlayedPositions \ Listed)

\* Twelve played games: ten are listed and the other two are summed in the
\* eleventh entry.
C22_Witness ==
    /\ cpc = "settled"
    /\ cview.screen = "chart"
    /\ Cardinality(PlayedPositions) = 12
    /\ Len(cview.chartData) = 11
    /\ cview.chartData[11].rank = 11
    /\ cview.chartData[11].minutes = 60
    /\ cview.chartData[1].minutes = 150

\* Exactly ten played games among twelve: no eleventh entry.
TenPlayed ==
    /\ cview.screen = "chart"
    /\ Len(cdata) = 12
    /\ Cardinality(PlayedPositions) = 10
    /\ Len(cview.chartData) = 10

\* C23: after a successful load Total Games Played is the number of games
\* with playtime > 0, Total Playtime is the sum of the playtime of these
\* games, and Average Playtime is totalPlaytime / totalGames when
\* totalGames > 0 and 0 when no game has playtime.
C23_ChartStatistics ==
    cpc = "settled" =>
        /\ ctotalGames = Cardinality(PlayedPositions)
        /\ ctotalPlaytime = PlaytimeOver(PlayedPositions)
        /\ cview.screen = "chart" =>
              /\ cview.totalGames = ctotalGames
              /\ cview.totalPlaytime = ctotalPlaytime
              /\ ctotalGames > 0 =>
                    cview.average = [kind |-> "quotient", num |-> ctotalPlaytime,
                                     den |-> ctotalGames]
              /\ ctotalGames = 0 =>
                    cview.average = [kind |-> "quotient", num |-> 0, den |-> 1]

\* A library of three games, none of them played: the average is 0.
C23_Witness ==
    /\ cpc = "settled"
    /\ cview.screen = "chart"
    /\ Len(cdata) = 3
    /\ ctotalGames = 0
    /\ cview.average.num = 0

\* Two played games of three.
TwoOfThree ==
    /\ cview.screen = "chart"
    /\ Len(cdata) = 3
    /\ ctotalGames = 2
    /\ cview.average.den = 2

InFlight == {"mounted", "fetching", "parsing", "pending", "rejected"}

\* Home: one fetch, loading until the chain ends, topGames set at most
\* once and only by the handler of a parsed response.
HomeLifecycle ==
    /\ pc = "idle" => fetches.home = 0 /\ loading /\ sets.home = 0
    /\ pc = "mounted" => fetches.home = 0
    /\ pc \in InFlight => loading /\ sets.home = 0 /\ topGames = <<>>
    /\ pc \in {"fetching", "parsing", "pending", "rejected", "settled"}
          => fetches.home = 1
    /\ pc = "settled" => ~loading
    /\ sets.home <= 1
    /\ sets.home = 1 => wire.home = "array" /\ pc = "settled"
    /\ sets.home = 0 => topGames = <<>>

ChartLifecycle ==
    /\ cpc = "idle" => fetches.chart = 0 /\ cloading /\ sets.chart = 0
    /\ cpc = "mounted" => fetches.chart = 0
    /\ cpc \in InFlight => cloading /\ sets.chart = 0
    /\ cpc \in {"fetching", "parsing", "pending", "rejected", "settled"}
          => fetches.chart = 1
    /\ cpc = "settled" => ~cloading
    /\ sets.chart <= 1
    /\ sets.chart = 1 => wire.chart = "array" /\ cpc = "settled"
    /\ sets.chart = 0 => cgames = <<>> /\ ctotalGames = 0 /\ ctotalPlaytime = 0

SpendingsLifecycle ==
    /\ spc = "idle" => fetches.spendings = 0 /\ sloading /\ sets.spendings = 0
    /\ spc = "mounted" => fetches.spendings = 0
    /\ spc \in InFlight => sloading /\ sets.spendings = 0
    /\ spc \in {"fetching", "parsing", "pending", "rejected", "settled"}
          => fetches.spendings = 1
    /\ spc = "settled" => ~sloading
    /\ sets.spendings <= 1
    /\ sets.spendings = 1 => wire.spendings = "array" /\ spc = "settled"
    /\ sets.spendings = 0 <=> stats = NoStats

\* A step never turns loading back to true, never makes a second fetch and
\* changes the computed data only where it counts a set.
LifecycleStep ==
    /\ ~loading => ~loading'
    /\ ~cloading => ~cloading'
    /\ ~sloading => ~sloading'
    /\ topGames' # topGames => sets'.home = sets.home + 1
    /\ <<cgames', ctotalGames', ctotalPlaytime'>>
          # <<cgames, ctotalGames, ctotalPlaytime>>
          => sets'.chart = sets.chart + 1
    /\ stats' # stats => sets'.spendings = sets.spendings + 1

\* C24: each data page issues exactly one fetch per mount; loading is true
\* at first, becomes false when the fetch settles, never becomes true
\* again and, the fetch settling, is eventually false; the computed data
\* (topGames / games / stats) is set at most once and only on the success
\* path.
C24_FetchLifecycle ==
    /\ [](HomeLifecycle /\ ChartLifecycle /\ SpendingsLifecycle)
    /\ [][LifecycleStep]_vars
    /\ (pc = "mounted") ~> (fetches.home = 1 /\ ~loading)
    /\ (cpc = "mounted") ~> (fetches.chart = 1 /\ ~cloading)
    /\ (spc = "mounted") ~> (fetches.spendings = 1 /\ ~sloading)

\* Home has set the top games of a parsed response with its only fetch.
C24_Witness ==
    /\ pc = "settled"
    /\ fetches.home = 1
    /\ sets.home = 1
    /\ ~loading
    /\ Len(topGames) = 2
    /\ view.screen = "games"

\* The fetch of a mounted page fails: the fetch rejects, the response is
\* not valid JSON, or owned_games.games is missing or not an array.  On
\* the spendings page an empty array makes the processing throw as well.
HomeFails == pc # "idle" /\ wire.home # "array"
ChartFails == cpc # "idle" /\ wire.chart # "array"
SpendingsFails ==
    /\ spc # "idle"
    /\ \/ wire.spendings # "array"
       \/ dataFetched.owned_games.games = <<>>

\* What the pages show when nothing was loaded.
NoGameData == view.screen = "empty" /\ view.sections = <<>>
NoChartData ==
    /\ cview.screen = "chart"
    /\ cview.totalGames = 0
    /\ cview.totalHours = 0
    /\ cview.chartData = <<>>
    /\ cview.table = <<>>
FailedToLoad == sview.screen = "failed"

\* C25: when the fetch rejects, the response is not valid JSON or the
\* processing of the data throws, the page still leaves the loading state
\* and its data keeps the initial value: Home has an empty topGames and
\* shows "No game data available", the chart has 0 games and 0 playtime,
\* Spendings has stats = null and shows "Failed to load spending data"; no
\* partial result is displayed.
C25_FailedFetch ==
    /\ [](HomeFails =>
            /\ topGames = <<>>
            /\ pc = "settled" => ~loading
            /\ view.screen = "loading" \/ NoGameData)
    /\ [](ChartFails =>
            /\ cgames = <<>> /\ ctotalGames = 0 /\ ctotalPlaytime = 0
            /\ cpc = "settled" => ~cloading
            /\ cview.screen = "loading" \/ NoChartData)
    /\ [](SpendingsFails =>
            /\ stats = NoStats
            /\ spc = "settled" => ~sloading
            /\ sview.screen = "loading" \/ FailedToLoad)
    /\ [](pc = "rejected" => HomeFails)
    /\ [](cpc = "rejected" => ChartFails)
    /\ [](spc = "rejected" => SpendingsFails)
    /\ HomeFails ~> (~loading /\ NoGameData)
    /\ ChartFails ~> (~cloading /\ NoChartData)
    /\ SpendingsFails ~> (~sloading /\ FailedToLoad)

\* A response without owned_games.games made the handler of Spendings
\* throw, and the page shows the failure text.
C25_Witness ==
    /\ wire.spendings = "missing"
    /\ spc = "settled"
    /\ ~sloading
    /\ stats = NoStats
    /\ FailedToLoad

\* The same for a rejected fetch of the chart and invalid JSON on Home.
FailedPages ==
    \/ wire.chart = "rejects" /\ cpc = "settled" /\ NoChartData
    \/ wire.home = "invalid JSON" /\ pc = "settled" /\ NoGameData

====
